---- MODULE Spec2Model ----
(***************************************************************************)
(* Before/After Pro: the comparison renderer and its exporters.            *)
(*                                                                         *)
(*   src/src/utils/imageProcessing.ts  createSideBySide, createSliderGif,  *)
(*                                     renderSliderFrame, loadImg          *)
(*   src/src/utils/exporters.ts        escapeHtml, exportHtmlSlider,       *)
(*                                     downloadBlob                        *)
(*                                     the exported slider document,       *)
(*                                     initInlineSlider,                   *)
(*                                     initFullscreenSlider                *)
(*   src/unnamed/part_000              captureFrame, loadImage             *)
(*                                                                         *)
(* The program is single-threaded and event-driven.  A task runs from one  *)
(* await to the next without interruption; `running` names the export      *)
(* whose code is on the stack, and is None between tasks.                  *)
(***************************************************************************)
EXTENDS Integers, Sequences, FiniteSets, TLC

VARIABLES
    running,    \* the createSliderGif call on the stack, or None
    gif,        \* per createSliderGif call: its locals and its encoder
    render,     \* renderSliderFrame applied to a free-standing canvas
    sbs,        \* the createSideBySide call: its locals and its result
    html,       \* the exportHtmlSlider call: its inputs and its outcome
    downloads,  \* what downloadBlob has handed to the browser, in order
    capture,    \* the video element and the latest captureFrame call
    page,       \* the exported stand-alone slider document, opened
    sliders,    \* the in-app slider regions: sessions and listeners
    resize,     \* the resizeImage call and a second call on its result
    save,       \* the exportSideBySide / saveImage call
    sw          \* the service worker: its cache, the network, one fetch

vars ==
    <<running, gif, render, sbs, html, downloads, capture, page, sliders,
      resize, save, sw>>

None == "none"

----------------------------------------------------------------------------
(* Arithmetic of the platform, on exact rationals n/d with n >= 0, d > 0.  *)
(* The program computes in doubles.  For the products it floors or rounds  *)
(* (h * 0.04, watermarkH * 0.55, w * 0.04, srcH * scale) the double and the *)
(* exact value give the same integer.  Math.round(w * pct) can differ from *)
(* the exact rounding only when w * pct is an exact tie and pct is not     *)
(* 0, 1/2 or 1, which needs w to be an odd multiple of 49; no width used   *)
(* here is one.                                                            *)

\* Math.round(n / d): to the nearest integer, halves upwards
RoundDiv(n, d) == (2 * n + d) \div (2 * d)

\* Math.floor(n / d)
FloorDiv(n, d) == n \div d

\* Math.ceil(n / d)
CeilDiv(n, d) == (n + d - 1) \div d

Max(a, b) == IF a >= b THEN a ELSE b

----------------------------------------------------------------------------
(* Images.  A data URL is modelled by what decoding it yields: whether it  *)
(* decodes at all, the identity of its pixels, and its pixel dimensions.   *)

DataUrl(id, width, height, ok) ==
    [id |-> id, width |-> width, height |-> height, ok |-> ok]

\* the inputs of the concurrent exports: pairs <<before, after>>
GifRequests ==
    { <<DataUrl("A", 800, 600, TRUE), DataUrl("B", 800, 600, TRUE)>>,
      <<DataUrl("C", 480, 960, TRUE), DataUrl("D", 400, 600, TRUE)>>,
      <<DataUrl("E", 6, 4, TRUE),     DataUrl("F", 5, 7, TRUE)>>,
      <<DataUrl("I", 600, 1301, TRUE), DataUrl("J", 300, 100, TRUE)>>,
      <<DataUrl("G", 1920, 1080, TRUE), DataUrl("H", 0, 0, FALSE)>> }

NoImage == [id |-> "", width |-> 0, height |-> 0]

\* loadImg's resolved value: the decoded image element
Decoded(url) == [id |-> url.id, width |-> url.width, height |-> url.height]

----------------------------------------------------------------------------
(* The animation frame sequence of createSliderGif.                        *)

slideCount == 14

\* sweep positions are rationals pct / PctDen
PctDen == slideCount * slideCount

EasedFirstBranchOnly(i) == 2 * i * i

\* eased = t < 0.5 ? 2*t*t : 1 - (-2*t + 2)^2 / 2, with t = i / slideCount,
\* as a numerator over PctDen
Eased(i) ==
    IF 2 * i < slideCount
    THEN 2 * i * i
    ELSE PctDen - 2 * (slideCount - i) * (slideCount - i)

\* for (let i = 1; i < slideCount; i++)
EaseStepsWithEndpoints == 0 .. slideCount

EaseSteps == 1 .. (slideCount - 1)

Frame(pct, delay) == [pct |-> pct, delay |-> delay]

RECURSIVE PushEase(_, _, _)
\* the frames one easing loop pushes, for i = from, from + 1, ... in EaseSteps
PushEase(i, forward, steps) ==
    IF i \notin steps
    THEN <<>>
    ELSE <<Frame(IF forward THEN PctDen - Eased(i) ELSE Eased(i), 80)>>
            \o PushEase(i + 1, forward, steps)

FirstStep(steps) == CHOOSE i \in steps : \A j \in steps : i <= j

BuildFrames ==
    <<Frame(PctDen, 1000)>>
        \o PushEase(FirstStep(EaseSteps), TRUE, EaseSteps)
        \o <<Frame(0, 1000)>>
        \o PushEase(FirstStep(EaseSteps), FALSE, EaseSteps)

----------------------------------------------------------------------------
(* renderSliderFrame: what it leaves on a w x h canvas.                    *)

BlankCanvas ==
    [after |-> "", before |-> "", clipW |-> 0, splitX |-> 0,
     handle |-> FALSE, handleX |-> 0, lineLeft2 |-> 0, radius |-> 0,
     labels |-> <<>>, w |-> 0, h |-> 0]

\* ctx.drawImage(img, 0, 0, w, h) on its own: the image stretched over the canvas
DrawnAlone(img, w, h) ==
    [BlankCanvas EXCEPT !.after = img.id, !.w = w, !.h = h]

\* if (splitX > 2 && splitX < w - 2)
DrawsHandleAlways(splitX, w) == splitX > 0

DrawsHandle(splitX, w) == splitX > 2 /\ splitX < w - 2

renderSliderFrame(beforeImg, afterImg, w, h, pct) ==
    LET splitX == RoundDiv(w * pct, PctDen)
        drawn  == DrawsHandle(splitX, w)
    IN  [after     |-> afterImg.id,
         before    |-> IF splitX > 0 THEN beforeImg.id ELSE "",
         clipW     |-> IF splitX > 0 THEN splitX ELSE 0,
         splitX    |-> splitX,
         handle    |-> drawn,
         \* ctx.arc(splitX, cy, r, ...)
         handleX   |-> IF drawn THEN splitX ELSE 0,
         \* ctx.fillRect(splitX - 1.5, 0, 3, h), in half pixels
         lineLeft2 |-> IF drawn THEN 2 * splitX - 3 ELSE 0,
         radius    |-> IF drawn THEN Max(12, RoundDiv(w * 4, 100)) ELSE 0,
         labels    |-> <<"BEFORE", "AFTER">>,
         w         |-> w,
         h         |-> h]

----------------------------------------------------------------------------
(* createSliderGif.                                                        *)

Exports == {"e1", "e2"}

maxW == 480

\* const w = Math.round(srcW * scale), scale = Math.min(1, maxW / srcW)
WorkingW(beforeImg, afterImg) ==
    LET srcW == Max(beforeImg.width, afterImg.width)
    IN  IF srcW <= maxW THEN srcW ELSE RoundDiv(srcW * maxW, srcW)

WorkingHUnscaled(beforeImg, afterImg) ==
    Max(beforeImg.height, afterImg.height)

\* const h = Math.round(srcH * scale), the same scale
WorkingH(beforeImg, afterImg) ==
    LET srcW == Max(beforeImg.width, afterImg.width)
        srcH == Max(beforeImg.height, afterImg.height)
    IN  IF srcW <= maxW THEN srcH ELSE RoundDiv(srcH * maxW, srcW)

\* quantize(combined.subarray(0, ci), 256): the palette of the samples taken
\* from the two pixel buffers
Quantize(beforePixels, afterPixels) ==
    [before  |-> beforePixels.after,
     after   |-> afterPixels.after,
     samples |-> 2 * CeilDiv(beforePixels.w * beforePixels.h, 4),
     colors  |-> 256]

NoPalette == [before |-> "", after |-> "", samples |-> 0, colors |-> 0]

\* applyPalette(rgba, palette)
ApplyPalette(rgba, palette) == [pixels |-> rgba, palette |-> palette]

\* the palette line 273 hands to applyPalette for the frame on canvas
PaletteOfFrameOnly(g) == Quantize(g.canvas, g.canvas)

PaletteForFrame(g) == g.palette

\* if (f % 5 === 0) await ...
YieldAfterEverySixth(f) == f % 6 = 0

YieldAfter(f) == f % 5 = 0

\* the places where createSliderGif awaits
IsSuspensionPointAlsoMidFrame(label) ==
    label \in {"awaitImport", "awaitLoad", "awaitYield", "rendered"}

IsSuspensionPoint(label) ==
    label \in {"awaitImport", "awaitLoad", "awaitYield"}

Terminal(label) == label \in {"done", "rejected"}

IdleExport ==
    [pc        |-> "idle",
     before    |-> DataUrl("", 0, 0, FALSE),
     after     |-> DataUrl("", 0, 0, FALSE),
     loadB     |-> "unset",
     loadA     |-> "unset",
     decodes   |-> 0,
     beforeImg |-> NoImage,
     afterImg  |-> NoImage,
     w         |-> 0,
     h         |-> 0,
     canvas    |-> BlankCanvas,
     palette   |-> NoPalette,
     quantized |-> 0,
     frames    |-> <<>>,
     f         |-> 0,
     written   |-> <<>>,
     run       |-> 0,
     yields    |-> 0,
     finished  |-> FALSE,
     blob      |-> <<>>]

\* the task of export e may take its next step
CanRun(e) ==
    \/ running = e
    \/ running = None /\ IsSuspensionPoint(gif[e].pc)

\* who holds the stack once export e has moved to `label`
Holder(e, label) ==
    IF IsSuspensionPoint(label) \/ Terminal(label) THEN None ELSE e

\* createSliderGif(beforeDataUrl, afterDataUrl) up to `await import('gifenc')`
Call(e) ==
    /\ running = None
    /\ gif[e].pc = "idle"
    /\ \E req \in GifRequests :
          gif' = [gif EXCEPT ![e] =
                    [@ EXCEPT !.pc = "awaitImport",
                              !.before = req[1],
                              !.after = req[2]]]
    /\ UNCHANGED <<running, render, sbs, html, downloads, capture, page, sliders,
                 resize, save, sw>>

\* the import resolved: both loadImg calls start, then await Promise.all
StartLoads(e) ==
    /\ CanRun(e)
    /\ gif[e].pc = "awaitImport"
    /\ gif' = [gif EXCEPT ![e] =
                 [@ EXCEPT !.pc = "awaitLoad",
                           !.loadB = "pending",
                           !.loadA = "pending",
                           !.decodes = @ + 2]]
    /\ running' = Holder(e, "awaitLoad")
    /\ UNCHANGED <<render, sbs, html, downloads, capture, page, sliders,
                 resize, save, sw>>

\* img.onload / img.onerror of the before image
BeforeSettles(e) ==
    /\ running = None
    /\ gif[e].pc \in {"awaitLoad", "rejected"}
    /\ gif[e].loadB = "pending"
    /\ gif' = [gif EXCEPT ![e] =
                 [@ EXCEPT !.loadB = IF gif[e].before.ok THEN "loaded" ELSE "error",
                           !.beforeImg = IF gif[e].before.ok
                                         THEN Decoded(gif[e].before) ELSE @]]
    /\ UNCHANGED <<running, render, sbs, html, downloads, capture, page, sliders,
                 resize, save, sw>>

\* img.onload / img.onerror of the after image
AfterSettles(e) ==
    /\ running = None
    /\ gif[e].pc \in {"awaitLoad", "rejected"}
    /\ gif[e].loadA = "pending"
    /\ gif' = [gif EXCEPT ![e] =
                 [@ EXCEPT !.loadA = IF gif[e].after.ok THEN "loaded" ELSE "error",
                           !.afterImg = IF gif[e].after.ok
                                        THEN Decoded(gif[e].after) ELSE @]]
    /\ UNCHANGED <<running, render, sbs, html, downloads, capture, page, sliders,
                 resize, save, sw>>

\* Promise.all rejected: createSliderGif rejects with the load's failure
LoadRejects(e) ==
    /\ CanRun(e)
    /\ gif[e].pc = "awaitLoad"
    /\ "error" \in {gif[e].loadB, gif[e].loadA}
    /\ gif' = [gif EXCEPT ![e] = [@ EXCEPT !.pc = "rejected"]]
    /\ running' = Holder(e, "rejected")
    /\ UNCHANGED <<render, sbs, html, downloads, capture, page, sliders,
                 resize, save, sw>>

\* Promise.all resolved: the working canvas, the palette, the frame list and
\* the encoder
Setup(e) ==
    /\ CanRun(e)
    /\ gif[e].pc = "awaitLoad"
    /\ gif[e].loadB = "loaded" /\ gif[e].loadA = "loaded"
    /\ LET g == gif[e]
           w == WorkingW(g.beforeImg, g.afterImg)
           h == WorkingH(g.beforeImg, g.afterImg)
           beforePixels == DrawnAlone(g.beforeImg, w, h)
           afterPixels  == DrawnAlone(g.afterImg, w, h)
       IN  gif' = [gif EXCEPT ![e] =
                     [@ EXCEPT !.pc = "render",
                               !.w = w,
                               !.h = h,
                               !.canvas = afterPixels,
                               !.palette = Quantize(beforePixels, afterPixels),
                               !.quantized = @ + 1,
                               !.frames = BuildFrames,
                               !.f = 0]]
    /\ running' = Holder(e, "render")
    /\ UNCHANGED <<render, sbs, html, downloads, capture, page, sliders,
                 resize, save, sw>>

\* renderSliderFrame(ctx, beforeImg, afterImg, w, h, pct)
RenderFrame(e) ==
    /\ CanRun(e)
    /\ gif[e].pc = "render"
    /\ LET g == gif[e]
       IN  gif' = [gif EXCEPT ![e] =
                     [@ EXCEPT !.pc = "rendered",
                               !.canvas = renderSliderFrame(
                                    g.beforeImg, g.afterImg, g.w, g.h,
                                    g.frames[g.f + 1].pct)]]
    /\ running' = Holder(e, "rendered")
    /\ UNCHANGED <<render, sbs, html, downloads, capture, page, sliders,
                 resize, save, sw>>

\* the loop's next position after frame f: for (...; f < frames.length; f++)
AfterFrameStopsEarly(g, f) ==
    IF f + 1 < Len(g.frames) - 1 THEN "render" ELSE "finish"

AfterFrame(g, f) == IF f + 1 < Len(g.frames) THEN "render" ELSE "finish"

\* const opts = { delay }; if (f === 0) opts.palette = palette
FrameOptsFixedDelay(g) ==
    [delay   |-> 80,
     palette |-> IF g.f = 0 THEN <<g.palette>> ELSE <<>>]

FrameOpts(g) ==
    [delay   |-> g.frames[g.f + 1].delay,
     palette |-> IF g.f = 0 THEN <<g.palette>> ELSE <<>>]

\* getImageData, applyPalette, gif.writeFrame, and the yield test
WriteFrame(e) ==
    /\ CanRun(e)
    /\ gif[e].pc = "rendered"
    /\ LET g     == gif[e]
           rgba  == g.canvas
           index == ApplyPalette(rgba, PaletteForFrame(g))
           opts  == FrameOpts(g)
           label == IF YieldAfter(g.f) THEN "awaitYield" ELSE AfterFrame(g, g.f)
       IN  /\ gif' = [gif EXCEPT ![e] =
                        [@ EXCEPT !.pc = label,
                                  !.written = Append(@,
                                      [f |-> g.f, index |-> index,
                                       w |-> g.w, h |-> g.h, opts |-> opts]),
                                  !.run = @ + 1,
                                  !.f = IF YieldAfter(g.f) THEN @ ELSE @ + 1]]
           /\ running' = Holder(e, label)
    /\ UNCHANGED <<render, sbs, html, downloads, capture, page, sliders,
                 resize, save, sw>>

\* the setTimeout(r, 0) fired: the loop goes on with f + 1
ResumeYield(e) ==
    /\ CanRun(e)
    /\ gif[e].pc = "awaitYield"
    /\ LET label == AfterFrame(gif[e], gif[e].f)
       IN  /\ gif' = [gif EXCEPT ![e] =
                        [@ EXCEPT !.pc = label,
                                  !.f = @ + 1,
                                  !.run = 0,
                                  !.yields = @ + 1]]
           /\ running' = Holder(e, label)
    /\ UNCHANGED <<render, sbs, html, downloads, capture, page, sliders,
                 resize, save, sw>>

\* gif.finish(); return new Blob([gif.bytes()], { type: 'image/gif' })
Finish(e) ==
    /\ CanRun(e)
    /\ gif[e].pc = "finish"
    /\ gif' = [gif EXCEPT ![e] =
                 [@ EXCEPT !.pc = "done",
                           !.finished = TRUE,
                           !.blob = gif[e].written]]
    /\ running' = Holder(e, "done")
    /\ UNCHANGED <<render, sbs, html, downloads, capture, page, sliders,
                 resize, save, sw>>

GifInit ==
    /\ running = None
    /\ gif = [e \in Exports |-> IdleExport]

GifNext ==
    \E e \in Exports :
        \/ Call(e)
        \/ StartLoads(e)
        \/ BeforeSettles(e)
        \/ AfterSettles(e)
        \/ LoadRejects(e)
        \/ Setup(e)
        \/ RenderFrame(e)
        \/ WriteFrame(e)
        \/ ResumeYield(e)
        \/ Finish(e)

----------------------------------------------------------------------------
(* renderSliderFrame on its own: any canvas width, any sweep position.     *)

MaxWidth == 12

MaxHeight == 2

RenderWidths == (1 .. MaxWidth) \cup {maxW}

RenderHeights == 1 .. MaxHeight

RenderIdle ==
    [pc |-> "idle", w |-> 0, h |-> 0, pct |-> 0, canvas |-> BlankCanvas]

RenderInit ==
    \E w \in RenderWidths, h \in RenderHeights, pct \in 0 .. PctDen :
        render = [pc |-> "ready", w |-> w, h |-> h, pct |-> pct,
                  canvas |-> BlankCanvas]

ApplyRender ==
    /\ render.pc = "ready"
    /\ render' = [render EXCEPT
                    !.pc = "drawn",
                    !.canvas = renderSliderFrame(
                        [id |-> "before", width |-> render.w, height |-> render.h],
                        [id |-> "after", width |-> render.w, height |-> render.h],
                        render.w, render.h, render.pct)]
    /\ UNCHANGED <<running, gif, sbs, html, downloads, capture, page, sliders,
                 resize, save, sw>>

----------------------------------------------------------------------------
(* Text, as sequences of one-character strings.                            *)

IsWhitespace(c) == c \in {" ", "\t", "\n"}

RECURSIVE TrimStart(_)
TrimStart(s) ==
    IF s # <<>> /\ IsWhitespace(Head(s)) THEN TrimStart(Tail(s)) ELSE s

RECURSIVE TrimEnd(_)
TrimEnd(s) ==
    IF s # <<>> /\ IsWhitespace(s[Len(s)])
    THEN TrimEnd(SubSeq(s, 1, Len(s) - 1))
    ELSE s

\* String.prototype.trim
TrimNothing(s) == s

Trim(s) == TrimEnd(TrimStart(s))

RECURSIVE StartsWith(_, _)
\* String.prototype.startsWith
StartsWith(s, prefix) ==
    \/ prefix = <<>>
    \/ /\ s # <<>>
       /\ Head(s) = Head(prefix)
       /\ StartsWith(Tail(s), Tail(prefix))

RECURSIVE ReplaceAll(_, _, _)
\* str.replace(/c/g, entity)
ReplaceAll(s, c, entity) ==
    IF s = <<>>
    THEN <<>>
    ELSE (IF Head(s) = c THEN entity ELSE <<Head(s)>>)
            \o ReplaceAll(Tail(s), c, entity)

RECURSIVE SeqsUpTo(_, _)
\* every sequence over `alphabet` of length at most n
SeqsUpTo(alphabet, n) ==
    IF n = 0
    THEN {<<>>}
    ELSE LET shorter == SeqsUpTo(alphabet, n - 1)
         IN  shorter \cup {Append(s, c) : s \in shorter, c \in alphabet}

----------------------------------------------------------------------------
(* createSideBySide.                                                       *)

divider == 4

MaxSmallDim == 2

SbsWidths == (1 .. MaxSmallDim) \cup {400, 800}

SbsHeights == (1 .. MaxSmallDim) \cup {600, 925, 930}

Watermarks ==
    { <<>>, <<" ", " ">>, <<"A", "c", "m", "e">>, <<" ", "A", "\t">> }

\* a Date or null, as a sequence of at most one [year, month, day]
NoDate == <<>>

Dates == { NoDate, <<[year |-> 2026, month |-> 2, day |-> 19]>> }

MonthShort ==
    <<"Jan", "Feb", "Mar", "Apr", "May", "Jun",
      "Jul", "Aug", "Sep", "Oct", "Nov", "Dec">>

\* Intl.DateTimeFormat('en-US', {month: 'short', day: 'numeric', year: 'numeric'})
formatDate(date) ==
    <<MonthShort[date.month], " ", ToString(date.day), ", ", ToString(date.year)>>

\* watermark.trim() ? Math.max(36, Math.floor(h * 0.04)) : 0
WatermarkHNoMinimum(watermark, h) ==
    IF Trim(watermark) # <<>> THEN FloorDiv(h * 4, 100) ELSE 0

WatermarkH(watermark, h) ==
    IF Trim(watermark) # <<>> THEN Max(36, FloorDiv(h * 4, 100)) ELSE 0

\* canvas.width = w * 2 + divider
CanvasWidthNoDivider(w) == w * 2

CanvasWidth(w) == w * 2 + divider

\* (w - img.width) / 2 and (h - img.height) / 2, in half pixels
TopLeft2(outer, inner) == 0

Reversed2(outer, inner) == inner - outer

Centred2(outer, inner) == outer - inner

\* the label of one side: the base text, then the date when it is shown
LabelTextIgnoresToggle(base, showDates, date) ==
    IF date # NoDate
    THEN <<base, " \\u2022 ">> \o formatDate(date[1])
    ELSE <<base>>

LabelText(base, showDates, date) ==
    IF showDates /\ date # NoDate
    THEN <<base, " \\u2022 ">> \o formatDate(date[1])
    ELSE <<base>>

NoCanvas ==
    [width |-> 0, height |-> 0, background |-> "",
     bx2 |-> 0, by2 |-> 0, bw |-> 0, bh |-> 0,
     ax2 |-> 0, ay2 |-> 0, aw |-> 0, ah |-> 0,
     dividerX |-> 0, dividerW |-> 0, dividerH |-> 0,
     fontSize |-> 0, beforeText |-> <<>>, afterText |-> <<>>,
     strip |-> FALSE, stripY |-> 0, stripH |-> 0,
     wmText |-> <<>>, wmFontSize |-> 0]

\* lines 47-132: the canvas createSideBySide draws; offsets in half pixels
ComposeSideBySide(beforeImg, afterImg, opt) ==
    LET w == Max(beforeImg.width, afterImg.width)
        h == Max(beforeImg.height, afterImg.height)
        watermarkH == WatermarkH(opt.watermark, h)
        hasStrip == Trim(opt.watermark) # <<>>
    IN  [width      |-> CanvasWidth(w),
         height     |-> h + watermarkH,
         background |-> "#111",
         bx2        |-> Centred2(w, beforeImg.width),
         by2        |-> Centred2(h, beforeImg.height),
         bw         |-> beforeImg.width,
         bh         |-> beforeImg.height,
         ax2        |-> 2 * (w + divider) + Centred2(w, afterImg.width),
         ay2        |-> Centred2(h, afterImg.height),
         aw         |-> afterImg.width,
         ah         |-> afterImg.height,
         dividerX   |-> w,
         dividerW   |-> divider,
         dividerH   |-> h,
         fontSize   |-> Max(24, FloorDiv(h * 4, 100)),
         beforeText |-> LabelText("BEFORE", opt.showDates, opt.beforeDate),
         afterText  |-> LabelText("AFTER", opt.showDates, opt.afterDate),
         strip      |-> hasStrip,
         stripY     |-> IF hasStrip THEN h ELSE 0,
         stripH     |-> IF hasStrip THEN watermarkH ELSE 0,
         wmText     |-> IF hasStrip THEN Trim(opt.watermark) ELSE <<>>,
         wmFontSize |-> IF hasStrip
                        THEN Max(16, FloorDiv(watermarkH * 55, 100)) ELSE 0]

SbsIdle ==
    [pc        |-> "idle",
     before    |-> DataUrl("", 0, 0, FALSE),
     after     |-> DataUrl("", 0, 0, FALSE),
     opt       |-> [watermark |-> <<>>, beforeDate |-> NoDate,
                    afterDate |-> NoDate, showDates |-> TRUE],
     loadB     |-> "unset",
     loadA     |-> "unset",
     decodes   |-> 0,
     beforeImg |-> NoImage,
     afterImg  |-> NoImage,
     canvas    |-> NoCanvas,
     result    |-> <<>>]

SbsUrls(id) ==
    {DataUrl(id, w, h, TRUE) : w \in SbsWidths, h \in SbsHeights}
        \cup {DataUrl(id, 0, 0, FALSE)}

SbsOptions ==
    [watermark : Watermarks, beforeDate : Dates, afterDate : Dates,
     showDates : BOOLEAN]

\* createSideBySide(beforeDataUrl, afterDataUrl, options) up to the await of
\* Promise.all: both loadImg calls have started
SbsCall ==
    /\ sbs.pc = "idle"
    /\ \E b \in SbsUrls("before"), a \in SbsUrls("after"), opt \in SbsOptions :
          sbs' = [sbs EXCEPT !.pc = "awaitLoad", !.before = b, !.after = a,
                             !.opt = opt, !.loadB = "pending",
                             !.loadA = "pending", !.decodes = @ + 2]
    /\ UNCHANGED <<running, gif, render, html, downloads, capture, page, sliders,
                 resize, save, sw>>

\* img.onload / img.onerror of the before image
SbsBeforeSettles ==
    /\ sbs.pc \in {"awaitLoad", "rejected"}
    /\ sbs.loadB = "pending"
    /\ sbs' = [sbs EXCEPT
                 !.loadB = IF sbs.before.ok THEN "loaded" ELSE "error",
                 !.beforeImg = IF sbs.before.ok THEN Decoded(sbs.before) ELSE @]
    /\ UNCHANGED <<running, gif, render, html, downloads, capture, page, sliders,
                 resize, save, sw>>

\* img.onload / img.onerror of the after image
SbsAfterSettles ==
    /\ sbs.pc \in {"awaitLoad", "rejected"}
    /\ sbs.loadA = "pending"
    /\ sbs' = [sbs EXCEPT
                 !.loadA = IF sbs.after.ok THEN "loaded" ELSE "error",
                 !.afterImg = IF sbs.after.ok THEN Decoded(sbs.after) ELSE @]
    /\ UNCHANGED <<running, gif, render, html, downloads, capture, page, sliders,
                 resize, save, sw>>

\* Promise.all rejected: createSideBySide rejects, nothing is drawn
SbsLoadRejects ==
    /\ sbs.pc = "awaitLoad"
    /\ "error" \in {sbs.loadB, sbs.loadA}
    /\ sbs' = [sbs EXCEPT !.pc = "rejected"]
    /\ UNCHANGED <<running, gif, render, html, downloads, capture, page, sliders,
                 resize, save, sw>>

\* Promise.all resolved: lines 47-134
SbsCompose ==
    /\ sbs.pc = "awaitLoad"
    /\ sbs.loadB = "loaded" /\ sbs.loadA = "loaded"
    /\ LET canvas == ComposeSideBySide(sbs.beforeImg, sbs.afterImg, sbs.opt)
       IN  sbs' = [sbs EXCEPT
                     !.pc = "done",
                     !.canvas = canvas,
                     \* canvas.toDataURL('image/jpeg', quality)
                     !.result = <<DataUrl("sideBySide", canvas.width,
                                          canvas.height, TRUE)>>]
    /\ UNCHANGED <<running, gif, render, html, downloads, capture, page, sliders,
                 resize, save, sw>>

SbsNext ==
    \/ SbsCall
    \/ SbsBeforeSettles
    \/ SbsAfterSettles
    \/ SbsLoadRejects
    \/ SbsCompose

----------------------------------------------------------------------------
(* escapeHtml and exportHtmlSlider.                                        *)

Amp == <<"&", "a", "m", "p", ";">>

Lt == <<"&", "l", "t", ";">>

Gt == <<"&", "g", "t", ";">>

Quot == <<"&", "q", "u", "o", "t", ";">>

Apos == <<"&", "#", "0", "3", "9", ";">>

\* the replace chain of lines 82-87
escapeHtmlAmpLast(str) ==
    ReplaceAll(
        ReplaceAll(
            ReplaceAll(
                ReplaceAll(
                    ReplaceAll(str, "<", Lt),
                    ">", Gt),
                "\"", Quot),
            "'", Apos),
        "&", Amp)

escapeHtml(str) ==
    ReplaceAll(
        ReplaceAll(
            ReplaceAll(
                ReplaceAll(
                    ReplaceAll(str, "&", Amp),
                    "<", Lt),
                ">", Gt),
            "\"", Quot),
        "'", Apos)

DataImage == <<"d", "a", "t", "a", ":", "i", "m", "a", "g", "e", "/">>

DataText == <<"d", "a", "t", "a", ":", "t", "e", "x", "t", "/",
              "p", "l", "a", "i", "n", ";">>

DataImageNoSlash == <<"d", "a", "t", "a", ":", "i", "m", "a", "g", "e">>

UrlPrefixes == {DataImage, DataText, DataImageNoSlash}

TailChars == {"&", "<", ">", "\"", "'", "a"}

MaxTail == 2

\* the inputs with anything after the tag, and the plain ones
RichUrls == {p \o t : p \in UrlPrefixes, t \in SeqsUpTo(TailChars, MaxTail)}

PlainUrls == {p \o t : p \in UrlPrefixes, t \in SeqsUpTo({"<"}, 1)}

HtmlInputs == (RichUrls \X PlainUrls) \cup (PlainUrls \X RichUrls)

\* !beforeDataUrl.startsWith('data:image/') || !afterDataUrl.startsWith('data:image/')
InvalidImageDataBeforeOnly(beforeDataUrl, afterDataUrl) ==
    ~StartsWith(beforeDataUrl, DataImage)

InvalidImageData(beforeDataUrl, afterDataUrl) ==
    \/ ~StartsWith(beforeDataUrl, DataImage)
    \/ ~StartsWith(afterDataUrl, DataImage)

\* the template of lines 132-302: its two image sources
Document(beforeBase64, afterBase64) ==
    [afterSrc |-> afterBase64, beforeSrc |-> beforeBase64]

NoDocument == <<>>

HtmlIdle ==
    [pc |-> "idle", before |-> <<>>, after |-> <<>>,
     document |-> NoDocument, error |-> ""]

\* downloadBlob(blob, filename)
DownloadBlob(type, content, filename) ==
    Append(downloads, [filename |-> filename, type |-> type, content |-> content])

\* exportHtmlSlider(beforeDataUrl, afterDataUrl): it awaits nothing
ExportHtmlRejects ==
    /\ html.pc = "idle"
    /\ \E inp \in HtmlInputs :
          /\ InvalidImageData(inp[1], inp[2])
          /\ html' = [html EXCEPT !.pc = "rejected", !.before = inp[1],
                                  !.after = inp[2],
                                  !.error = "Invalid image data"]
    /\ UNCHANGED <<running, gif, render, sbs, downloads, capture, page, sliders,
                 resize, save, sw>>

ExportHtmlDownloads ==
    /\ html.pc = "idle"
    /\ \E inp \in HtmlInputs :
          /\ ~InvalidImageData(inp[1], inp[2])
          /\ LET doc == Document(escapeHtml(inp[1]), escapeHtml(inp[2]))
             IN  /\ html' = [html EXCEPT !.pc = "done", !.before = inp[1],
                                         !.after = inp[2], !.document = <<doc>>]
                 /\ downloads' = DownloadBlob("text/html", <<doc>>,
                                              "before-after-slider.html")
    /\ UNCHANGED <<running, gif, render, sbs, capture, page, sliders,
                 resize, save, sw>>

HtmlNext ==
    \/ ExportHtmlRejects
    \/ ExportHtmlDownloads

----------------------------------------------------------------------------
(* captureFrame (src/unnamed/part_000), the camera's still capture.        *)
(* A video element reports videoWidth = videoHeight = 0 until its metadata *)
(* has loaded, and two positive numbers afterwards.                        *)

\* width and height of DEFAULT_OPTIONS, the resolution startCamera asks for
DefaultWidth == 1920

DefaultHeight == 1080

MaxVideoDim == 2

VideoDims == (1 .. MaxVideoDim) \cup {DefaultHeight, DefaultWidth}

Size(w, h) == [w |-> w, h |-> h]

VideoSizes == {Size(0, 0)} \cup {Size(w, h) : w \in VideoDims, h \in VideoDims}

MaxCaptures == 2

\* canvas.toDataURL('image/jpeg', quality): a canvas without pixels
\* serialises to the string "data:,", any other to a JPEG of its bitmap
ToDataURL(canvas) ==
    IF canvas.w = 0 \/ canvas.h = 0
    THEN [mime |-> "", w |-> 0, h |-> 0]
    ELSE [mime |-> "image/jpeg", w |-> canvas.w, h |-> canvas.h]

CanvasOfDefaultOptions(video) == Size(DefaultWidth, DefaultHeight)

\* canvas.width = videoEl.videoWidth; canvas.height = videoEl.videoHeight
CanvasOf(video) == Size(video.w, video.h)

CaptureIdle ==
    [pc     |-> "idle",
     video  |-> Size(0, 0),
     atCall |-> Size(0, 0),
     canvas |-> Size(0, 0),
     threw  |-> FALSE,
     result |-> <<>>,
     bitmap |-> <<>>,
     calls  |-> 0]

\* the stream starts, changes its resolution, or is detached
VideoResizes ==
    /\ \E size \in VideoSizes :
          /\ size # capture.video
          /\ capture' = [capture EXCEPT !.video = size]
    /\ UNCHANGED <<running, gif, render, sbs, html, downloads, page, sliders,
                 resize, save, sw>>

\* one call of captureFrame, from its first statement to its return
CaptureFrame ==
    /\ capture.calls < MaxCaptures
    /\ LET canvas == CanvasOf(capture.video)
       IN  capture' = [capture EXCEPT !.pc = "returned",
                                      !.atCall = capture.video,
                                      !.canvas = canvas,
                                      !.threw = FALSE,
                                      !.result = <<ToDataURL(canvas)>>,
                                      !.bitmap = <<>>,
                                      !.calls = @ + 1]
    /\ UNCHANGED <<running, gif, render, sbs, html, downloads, page, sliders,
                 resize, save, sw>>

\* loadImage(dataUrl) on what captureFrame returned: img.onload
LoadImageResolves ==
    /\ capture.pc = "returned"
    /\ capture.result[1].mime = "image/jpeg"
    /\ capture' = [capture EXCEPT
                     !.pc = "decoded",
                     !.bitmap = <<Size(capture.result[1].w, capture.result[1].h)>>]
    /\ UNCHANGED <<running, gif, render, sbs, html, downloads, page, sliders,
                 resize, save, sw>>

\* loadImage(dataUrl): img.onerror, the string is not an image
LoadImageRejects ==
    /\ capture.pc = "returned"
    /\ capture.result[1].mime # "image/jpeg"
    /\ capture' = [capture EXCEPT !.pc = "undecodable"]
    /\ UNCHANGED <<running, gif, render, sbs, html, downloads, page, sliders,
                 resize, save, sw>>

CaptureNext ==
    \/ VideoResizes
    \/ CaptureFrame
    \/ LoadImageResolves
    \/ LoadImageRejects

----------------------------------------------------------------------------
(* The stand-alone slider document exportHtmlSlider writes, opened in a    *)
(* browser (exporters.ts, the markup and script of lines 236-298).         *)
(* The container is as wide as the window, rect.width >= 1.  A position is *)
(* a percentage n / width, kept as its numerator n; the script computes    *)
(* (x / rect.width) * 100 in doubles, and aria-valuenow is Math.round of   *)
(* the very number it writes into handle.style.left.                       *)

MaxSliderWidth == 3

SliderWidths == 1 .. MaxSliderWidth

\* the keys pressed on the focused container
Keys == {"ArrowLeft", "ArrowRight", "Home"}

\* .slider-handle { left: 50% } and aria-valuenow="50"
InitialPct == 50

\* the step of the arrow keys
step == 2

PageIdle ==
    [pc         |-> "idle",
     width      |-> 1,
     role       |-> "",
     valuemin   |-> 0,
     valuemax   |-> 0,
     valuenow   |-> 0,
     left       |-> <<>>,
     overlay    |-> <<>>,
     isDragging |-> FALSE,
     prev       |-> 0,
     last       |-> ""]

\* where the handle is drawn: the inline style, or the stylesheet's 50%
HandlePosition(p) ==
    IF p.left = <<>> THEN InitialPct * p.width ELSE p.left[1]

ClampPctNoFloor(x, width) ==
    IF x >= width THEN 100 * width ELSE 100 * x

\* Math.max(0, Math.min(100, (x / rect.width) * 100))
ClampPct(x, width) ==
    IF x <= 0 THEN 0 ELSE IF x >= width THEN 100 * width ELSE 100 * x

AriaFloor(pct, width) == pct \div width

\* Math.round(pct)
AriaValue(pct, width) == RoundDiv(pct, width)

\* parseFloat(handle.style.left) || 50: NaN and 0 are both falsy
CurrentPct(p) ==
    IF p.left = <<>> \/ p.left = <<0>> THEN 50 * p.width ELSE p.left[1]

\* the three writes shared by updateSlider and the keydown handler
Moved(p, pct, event) ==
    [p EXCEPT !.left = <<pct>>,
              !.overlay = <<pct>>,
              !.valuenow = AriaValue(pct, p.width),
              !.prev = HandlePosition(p),
              !.last = event]

\* updateSlider(clientX), x = clientX - rect.left
updateSlider(p, x, event) == Moved(p, ClampPct(x, p.width), event)

\* the document is loaded: its markup and the script's top level
OpenDocument ==
    /\ page.pc = "idle"
    /\ \E width \in SliderWidths :
          page' = [page EXCEPT !.pc = "open",
                               !.width = width,
                               !.role = "slider",
                               !.valuemin = 0,
                               !.valuemax = 100,
                               !.valuenow = InitialPct,
                               !.last = "load"]
    /\ UNCHANGED <<running, gif, render, sbs, html, downloads, capture, sliders,
                 resize, save, sw>>

\* handle mousedown / touchstart
PagePress ==
    /\ page.pc = "open"
    /\ page' = [page EXCEPT !.isDragging = TRUE,
                            !.prev = HandlePosition(page),
                            !.last = "press"]
    /\ UNCHANGED <<running, gif, render, sbs, html, downloads, capture, sliders,
                 resize, save, sw>>

\* document mousemove / touchmove
PageMove ==
    /\ page.pc = "open"
    /\ \E x \in -1 .. page.width + 1 :
          page' = IF page.isDragging
                  THEN updateSlider(page, x, "move")
                  ELSE [page EXCEPT !.prev = HandlePosition(page),
                                    !.last = "move"]
    /\ UNCHANGED <<running, gif, render, sbs, html, downloads, capture, sliders,
                 resize, save, sw>>

\* document mouseup / touchend
PageRelease ==
    /\ page.pc = "open"
    /\ page' = [page EXCEPT !.isDragging = FALSE,
                            !.prev = HandlePosition(page),
                            !.last = "release"]
    /\ UNCHANGED <<running, gif, render, sbs, html, downloads, capture, sliders,
                 resize, save, sw>>

\* container click: the pointer is inside the container
PageClick ==
    /\ page.pc = "open"
    /\ \E x \in 0 .. page.width :
          page' = updateSlider(page, x, "click")
    /\ UNCHANGED <<running, gif, render, sbs, html, downloads, capture, sliders,
                 resize, save, sw>>

\* container keydown
PageKeyDown ==
    /\ page.pc = "open"
    /\ \E key \in Keys :
          LET currentPct == CurrentPct(page)
              full == 100 * page.width
          IN  page' =
                IF key = "ArrowLeft"
                THEN Moved(page, Max(0, currentPct - step * page.width), key)
                ELSE IF key = "ArrowRight"
                THEN Moved(page, IF currentPct + step * page.width > full
                                 THEN full
                                 ELSE currentPct + step * page.width, key)
                ELSE [page EXCEPT !.prev = HandlePosition(page),
                                  !.last = key]
    /\ UNCHANGED <<running, gif, render, sbs, html, downloads, capture, sliders,
                 resize, save, sw>>

PageNext ==
    \/ OpenDocument
    \/ PagePress
    \/ PageMove
    \/ PageRelease
    \/ PageClick
    \/ PageKeyDown

----------------------------------------------------------------------------
(* The in-app sliders: initInlineSlider / destroyInlineSlider and          *)
(* initFullscreenSlider / destroyFullscreenSlider (exporters.ts 308-585).  *)
(* A session is one init call: its closure and the listeners it added.     *)
(* A listener is registered on a node, which is the window, the document   *)
(* or an element of the container the session was given.  Every container  *)
(* has the elements the selectors look up; the close button is optional.   *)
(* onClose returns without calling back into these functions.              *)
(* Pointer coordinates are relative to the left edge of the surface, whose  *)
(* rect is surfaceWidth wide; a position is a percentage n / surfaceWidth,  *)
(* kept as its numerator.  The images have loaded, so matchSize does not   *)
(* return early.                                                           *)

Regions == {"inline", "fullscreen"}

Containers == {"c1", "c2"}

MaxSessions == 3

Global(name) == <<"", name>>

Listener(region, id, node, type) ==
    [region |-> region, session |-> id, node |-> node, type |-> type]

\* the id of the session in a cleanup slot, 0 for null
IdIn(slot) == IF slot = <<>> THEN 0 ELSE slot[1].id

\* the closure a cleanup function carries
Session(region, id, container, closeBtn) ==
    [region |-> region, id |-> id, container |-> container,
     closeBtn |-> closeBtn]

\* the addEventListener calls of initInlineSlider
InlineRegistered(s) ==
    { Listener("inline", s.id, <<s.container, "afterImg">>, "load"),
      Listener("inline", s.id, Global("window"), "resize"),
      Listener("inline", s.id, Global("window"), "orientationchange"),
      Listener("inline", s.id, <<s.container, "handle">>, "mousedown"),
      Listener("inline", s.id, <<s.container, "handle">>, "touchstart"),
      Listener("inline", s.id, Global("document"), "mousemove"),
      Listener("inline", s.id, Global("document"), "touchmove"),
      Listener("inline", s.id, Global("document"), "mouseup"),
      Listener("inline", s.id, Global("document"), "touchend"),
      Listener("inline", s.id, <<s.container, "container">>, "click") }

InlineRemovedKeepsTouchEnd(s) ==
    { Listener("inline", s.id, <<s.container, "afterImg">>, "load"),
      Listener("inline", s.id, Global("window"), "resize"),
      Listener("inline", s.id, Global("window"), "orientationchange"),
      Listener("inline", s.id, <<s.container, "handle">>, "mousedown"),
      Listener("inline", s.id, <<s.container, "handle">>, "touchstart"),
      Listener("inline", s.id, Global("document"), "mousemove"),
      Listener("inline", s.id, Global("document"), "touchmove"),
      Listener("inline", s.id, Global("document"), "mouseup"),
      Listener("inline", s.id, <<s.container, "container">>, "click") }

\* the removeEventListener calls of inlineSliderCleanup
InlineRemoved(s) ==
    { Listener("inline", s.id, <<s.container, "afterImg">>, "load"),
      Listener("inline", s.id, Global("window"), "resize"),
      Listener("inline", s.id, Global("window"), "orientationchange"),
      Listener("inline", s.id, <<s.container, "handle">>, "mousedown"),
      Listener("inline", s.id, <<s.container, "handle">>, "touchstart"),
      Listener("inline", s.id, Global("document"), "mousemove"),
      Listener("inline", s.id, Global("document"), "touchmove"),
      Listener("inline", s.id, Global("document"), "mouseup"),
      Listener("inline", s.id, Global("document"), "touchend"),
      Listener("inline", s.id, <<s.container, "container">>, "click") }

\* the addEventListener calls of initFullscreenSlider
FullscreenRegistered(s) ==
    { Listener("fullscreen", s.id, <<s.container, "afterImg">>, "load"),
      Listener("fullscreen", s.id, Global("window"), "resize"),
      Listener("fullscreen", s.id, Global("window"), "orientationchange"),
      Listener("fullscreen", s.id, <<s.container, "handle">>, "mousedown"),
      Listener("fullscreen", s.id, <<s.container, "handle">>, "touchstart"),
      Listener("fullscreen", s.id, Global("document"), "mousemove"),
      Listener("fullscreen", s.id, Global("document"), "touchmove"),
      Listener("fullscreen", s.id, Global("document"), "mouseup"),
      Listener("fullscreen", s.id, Global("document"), "touchend"),
      Listener("fullscreen", s.id, <<s.container, "container">>, "click"),
      Listener("fullscreen", s.id, <<s.container, "wrapper">>, "click") }
    \cup (IF s.closeBtn
          THEN {Listener("fullscreen", s.id, <<s.container, "closeBtn">>, "click")}
          ELSE {})

\* the removeEventListener calls of cleanup()
FullscreenRemoved(s) ==
    { Listener("fullscreen", s.id, <<s.container, "afterImg">>, "load"),
      Listener("fullscreen", s.id, Global("window"), "resize"),
      Listener("fullscreen", s.id, Global("window"), "orientationchange"),
      Listener("fullscreen", s.id, <<s.container, "handle">>, "mousedown"),
      Listener("fullscreen", s.id, <<s.container, "handle">>, "touchstart"),
      Listener("fullscreen", s.id, Global("document"), "mousemove"),
      Listener("fullscreen", s.id, Global("document"), "touchmove"),
      Listener("fullscreen", s.id, Global("document"), "mouseup"),
      Listener("fullscreen", s.id, Global("document"), "touchend"),
      Listener("fullscreen", s.id, <<s.container, "container">>, "click"),
      Listener("fullscreen", s.id, <<s.container, "wrapper">>, "click") }
    \cup (IF s.closeBtn
          THEN {Listener("fullscreen", s.id, <<s.container, "closeBtn">>, "click")}
          ELSE {})

\* a surface is the container of one region
Surfaces == Regions \X Containers

SurfaceOf(s) == <<s.region, s.container>>

\* rect.width of a surface
surfaceWidth == 2

\* pointer coordinates: left of the surface, inside it, right of it
PointerXs == {-1, 1, 3}

\* a timer a session has set: "labels" or "matchSize"
Timer(id, kind) == [session |-> id, kind |-> kind]

\* the event or timer callback that ran in the latest step, the surface it
\* was aimed at and, for a click, its clientX - rect.left; stale: its session
\* was no longer the active one
NoEvent == [type |-> "", surface |-> <<"", "">>, x |-> 0, stale |-> FALSE]

NoCall == <<"", "", 0>>

Event(type, surface, x) ==
    [type |-> type, surface |-> surface, x |-> x, stale |-> FALSE]

\* inlineSliderCleanup, fullscreenSliderCleanup: null, or one session's
\* cleanup; closures: the sessions created so far, by id; closed: the
\* sessions whose onClose has been called; last: the call made in the latest
\* step, its region and the session whose cleanup it ran (0 if none);
\* dragging: the sessions
\* whose isDragging is true; handle, overlay: handle.style.left and
\* overlay.style.width of each surface, <<>> while unset; timers: the
\* pending setTimeout callbacks
SlidersIdle ==
    [inlineSliderCleanup     |-> <<>>,
     fullscreenSliderCleanup |-> <<>>,
     listeners               |-> {},
     closures                |-> <<>>,
     closed                  |-> <<>>,
     last                    |-> NoCall,
     dragging                |-> {},
     handle                  |-> [sf \in Surfaces |-> <<>>],
     overlay                 |-> [sf \in Surfaces |-> <<>>],
     timers                  |-> {},
     event                   |-> NoEvent]

\* the cleanup closure of inline session s, run on the state t
RunInlineCleanup(t, s) ==
    [t EXCEPT !.listeners = @ \ InlineRemoved(s),
              !.dragging = @ \ {s.id}]

RunFullscreenCleanupSilently(t, s) ==
    [t EXCEPT !.listeners = @ \ FullscreenRemoved(s),
              !.timers = @ \ {Timer(s.id, "labels")},
              !.dragging = @ \ {s.id},
              !.fullscreenSliderCleanup = <<>>]

\* cleanup() of fullscreen session s, run on the state t
RunFullscreenCleanup(t, s) ==
    [t EXCEPT !.listeners = @ \ FullscreenRemoved(s),
              !.timers = @ \ {Timer(s.id, "labels")},
              !.dragging = @ \ {s.id},
              !.fullscreenSliderCleanup = <<>>,
              !.closed = Append(@, s.id)]

initInlineSlider(container) ==
    /\ Len(sliders.closures) < MaxSessions
    /\ LET s == Session("inline", Len(sliders.closures) + 1, container, FALSE)
           cleaned == IF sliders.inlineSliderCleanup # <<>>
                      THEN [RunInlineCleanup(sliders, sliders.inlineSliderCleanup[1])
                              EXCEPT !.inlineSliderCleanup = <<>>]
                      ELSE sliders
       IN  sliders' = [cleaned EXCEPT
                         !.listeners = @ \cup InlineRegistered(s),
                         !.inlineSliderCleanup = <<s>>,
                         !.closures = Append(@, s),
                         !.event = NoEvent,
                         !.last = <<"init", "inline",
                                    IdIn(sliders.inlineSliderCleanup)>>]
    /\ UNCHANGED <<running, gif, render, sbs, html, downloads, capture, page,
                 resize, save, sw>>

destroyInlineSlider ==
    /\ sliders' =
          [(IF sliders.inlineSliderCleanup # <<>>
            THEN [RunInlineCleanup(sliders, sliders.inlineSliderCleanup[1])
                    EXCEPT !.inlineSliderCleanup = <<>>]
            ELSE sliders)
           EXCEPT !.event = NoEvent,
                  !.last = <<"destroy", "inline",
                             IdIn(sliders.inlineSliderCleanup)>>]
    /\ UNCHANGED <<running, gif, render, sbs, html, downloads, capture, page,
                 resize, save, sw>>

initFullscreenSlider(container, closeBtn) ==
    /\ Len(sliders.closures) < MaxSessions
    /\ LET s == Session("fullscreen", Len(sliders.closures) + 1, container,
                         closeBtn)
           cleaned == IF sliders.fullscreenSliderCleanup # <<>>
                      THEN [RunFullscreenCleanup(sliders,
                                                 sliders.fullscreenSliderCleanup[1])
                              EXCEPT !.fullscreenSliderCleanup = <<>>]
                      ELSE sliders
       IN  sliders' = [cleaned EXCEPT
                         !.listeners = @ \cup FullscreenRegistered(s),
                         !.timers = @ \cup {Timer(s.id, "labels")},
                         !.fullscreenSliderCleanup = <<s>>,
                         !.closures = Append(@, s),
                         !.event = NoEvent,
                         !.last = <<"init", "fullscreen",
                                    IdIn(sliders.fullscreenSliderCleanup)>>]
    /\ UNCHANGED <<running, gif, render, sbs, html, downloads, capture, page,
                 resize, save, sw>>

destroyFullscreenSlider ==
    /\ sliders' =
          [(IF sliders.fullscreenSliderCleanup # <<>>
            THEN [RunFullscreenCleanup(sliders, sliders.fullscreenSliderCleanup[1])
                    EXCEPT !.fullscreenSliderCleanup = <<>>]
            ELSE sliders)
           EXCEPT !.event = NoEvent,
                  !.last = <<"destroy", "fullscreen",
                             IdIn(sliders.fullscreenSliderCleanup)>>]
    /\ UNCHANGED <<running, gif, render, sbs, html, downloads, capture, page,
                 resize, save, sw>>

\* onCloseClick: a click on a close button that carries the listener
CloseButtonClick ==
    /\ \E l \in sliders.listeners :
          /\ l.region = "fullscreen" /\ l.node[2] = "closeBtn" /\ l.type = "click"
          /\ sliders' = [RunFullscreenCleanup(sliders, sliders.closures[l.session])
                           EXCEPT !.event = NoEvent,
                                  !.last = <<"close", "fullscreen", l.session>>]
    /\ UNCHANGED <<running, gif, render, sbs, html, downloads, capture, page,
                 resize, save, sw>>

\* onContainerClick with e.target === container: a tap on the black bars
BackgroundClick ==
    /\ \E l \in sliders.listeners :
          /\ l.region = "fullscreen" /\ l.node[2] = "container" /\ l.type = "click"
          /\ sliders' = [RunFullscreenCleanup(sliders, sliders.closures[l.session])
                           EXCEPT !.event = NoEvent,
                                  !.last = <<"close", "fullscreen", l.session>>]
    /\ UNCHANGED <<running, gif, render, sbs, html, downloads, capture, page,
                 resize, save, sw>>

\* the sessions whose listener for `type` on `node` an event reaches; an
\* element node belongs to the surface <<region, node[1]>>
Receivers(region, node, type) ==
    {l.session : l \in {m \in sliders.listeners :
                            /\ m.node = node
                            /\ m.type = type
                            /\ (node[1] = "" \/ m.region = region)}}

\* is session id the one its region's cleanup slot refers to
Active(id) ==
    LET s == sliders.closures[id]
    IN  IF s.region = "inline"
        THEN IdIn(sliders.inlineSliderCleanup) = id
        ELSE IdIn(sliders.fullscreenSliderCleanup) = id

\* the style both updateSlider functions write for the sessions in `ids`
Seek(style, ids, x) ==
    [sf \in Surfaces |->
        IF \E id \in ids : SurfaceOf(sliders.closures[id]) = sf
        THEN <<ClampPct(x, surfaceWidth)>>
        ELSE style[sf]]

DraggedOrNot(ids, dragging) == ids

\* if (isDragging): the receivers of a move that act on it
Dragged(ids, dragging) == ids \cap dragging

\* onMouseDown / onTouchStart, onHandleMouseDown / onHandleTouchStart
HandlePress ==
    /\ \E sf \in Surfaces, type \in {"mousedown", "touchstart"} :
          LET ids == Receivers(sf[1], <<sf[2], "handle">>, type)
          IN  /\ ids # {}
              /\ sliders' = [sliders EXCEPT !.dragging = @ \cup ids,
                                            !.last = NoCall,
                                            !.event = Event("press", sf, 0)]
    /\ UNCHANGED <<running, gif, render, sbs, html, downloads, capture, page,
                   resize, save, sw>>

\* onMouseMove / onTouchMove, onMove / onDocTouchMove: a document event
PointerMove ==
    /\ \E type \in {"mousemove", "touchmove"}, x \in PointerXs :
          LET all == Receivers("", Global("document"), type)
              ids == Dragged(all, sliders.dragging)
          IN  /\ all # {}
              /\ sliders' = [sliders EXCEPT
                               !.handle = Seek(@, ids, x),
                               !.overlay = Seek(@, ids, x),
                               !.last = NoCall,
                               !.event = Event("move", <<"", "">>, 0)]
    /\ UNCHANGED <<running, gif, render, sbs, html, downloads, capture, page,
                   resize, save, sw>>

\* onMouseUp / onTouchEnd, onUp / onTouchEndDoc: a document event
PointerUp ==
    /\ \E type \in {"mouseup", "touchend"} :
          LET ids == Receivers("", Global("document"), type)
          IN  /\ ids # {}
              /\ sliders' = [sliders EXCEPT
                               !.dragging = @ \ ids,
                               !.last = NoCall,
                               !.event = Event("up", <<"", "">>, 0)]
    /\ UNCHANGED <<running, gif, render, sbs, html, downloads, capture, page,
                   resize, save, sw>>

\* onClick of the inline container
InlineClick ==
    /\ \E container \in Containers, x \in PointerXs :
          LET ids == Receivers("inline", <<container, "container">>, "click")
          IN  /\ ids # {}
              /\ sliders' = [sliders EXCEPT
                               !.handle = Seek(@, ids, x),
                               !.overlay = Seek(@, ids, x),
                               !.last = NoCall,
                               !.event = Event("click", <<"inline", container>>, x)]
    /\ UNCHANGED <<running, gif, render, sbs, html, downloads, capture, page,
                   resize, save, sw>>

\* onWrapperClick: a click inside the fullscreen wrapper, on the handle or
\* beside it; it reaches onContainerClick too, where e.target is not the
\* container
WrapperClick ==
    /\ \E container \in Containers, x \in PointerXs, onHandle \in BOOLEAN :
          LET ids == Receivers("fullscreen", <<container, "wrapper">>, "click")
          IN  /\ ids # {}
              /\ sliders' =
                    IF onHandle
                    THEN [sliders EXCEPT
                            !.last = NoCall,
                            !.event = Event("clickHandle",
                                            <<"fullscreen", container>>, x)]
                    ELSE [sliders EXCEPT
                            !.handle = Seek(@, ids, x),
                            !.overlay = Seek(@, ids, x),
                            !.timers = @ \cup {Timer(id, "labels") : id \in ids},
                            !.last = NoCall,
                            !.event = Event("click",
                                            <<"fullscreen", container>>, x)]
    /\ UNCHANGED <<running, gif, render, sbs, html, downloads, capture, page,
                   resize, save, sw>>

\* onOrientationChange: setTimeout(matchSize, 150), the timer id is dropped
OrientationChange ==
    /\ LET ids == Receivers("", Global("window"), "orientationchange")
       IN  /\ ids # {}
           /\ sliders' = [sliders EXCEPT
                            !.timers = @ \cup {Timer(id, "matchSize") : id \in ids},
                            !.last = NoCall,
                            !.event = Event("orientationchange", <<"", "">>, 0)]
    /\ UNCHANGED <<running, gif, render, sbs, html, downloads, capture, page,
                   resize, save, sw>>

\* a pending timer fires: the labels fade, or matchSize sizes the surface
TimerFires ==
    /\ \E timer \in sliders.timers :
          sliders' = [sliders EXCEPT
                        !.timers = @ \ {timer},
                        !.last = NoCall,
                        !.event = [type |-> timer.kind,
                                   surface |-> SurfaceOf(sliders.closures[timer.session]),
                                   x |-> 0,
                                   stale |-> ~Active(timer.session)]]
    /\ UNCHANGED <<running, gif, render, sbs, html, downloads, capture, page,
                   resize, save, sw>>

\* the sessions of the app: opened, re-opened and closed
LifecycleNext ==
    \/ \E container \in Containers : initInlineSlider(container)
    \/ destroyInlineSlider
    \/ \E container \in Containers, closeBtn \in BOOLEAN :
          initFullscreenSlider(container, closeBtn)
    \/ destroyFullscreenSlider
    \/ CloseButtonClick
    \/ BackgroundClick

\* has every session so far been one of `region`
OnlyRegion(region) ==
    \A id \in 1 .. Len(sliders.closures) :
        sliders.closures[id].region = region

\* one slider opened and re-opened on its container, or the two sliders
\* opened one beside the other, with the pointer, the orientation and the
\* timers
GesturesNext ==
    \/ /\ OnlyRegion("inline") \/ Len(sliders.closures) = 1
       /\ initInlineSlider("c1")
    \/ destroyInlineSlider
    \/ /\ OnlyRegion("fullscreen") \/ Len(sliders.closures) = 1
       /\ initFullscreenSlider("c1", TRUE)
    \/ destroyFullscreenSlider
    \/ CloseButtonClick
    \/ BackgroundClick
    \/ HandlePress
    \/ PointerMove
    \/ PointerUp
    \/ InlineClick
    \/ WrapperClick
    \/ OrientationChange
    \/ TimerFires

SlidersNext == LifecycleNext

----------------------------------------------------------------------------
(* resizeImage (imageProcessing.ts 140-164), and a second call that is     *)
(* given the first call's result.  The ratio is maxDimension over the      *)
(* larger side, so width * ratio and height * ratio are w * m / s and      *)
(* h * m / s with s the larger side; the double of s * (m / s) rounds to m.*)

MaxResizeDim == 6

\* the default of the maxDimension parameter
DefaultMaxDimension == 1920

ResizeDims == (1 .. MaxResizeDim) \cup {DefaultMaxDimension, 3841}

MaxDimensions == {2, 3, DefaultMaxDimension}

ResizeUrls(id) == {DataUrl(id, w, h, TRUE) : w \in ResizeDims, h \in ResizeDims}

\* canvas.toDataURL of a newW x newH canvas holding the scaled image: a
\* canvas without pixels serialises to "data:,", which decodes to nothing
ResizedUrl(id, newW, newH) ==
    IF newW = 0 \/ newH = 0
    THEN DataUrl("", 0, 0, FALSE)
    ELSE DataUrl(id, newW, newH, TRUE)

\* img.width <= maxDimension && img.height <= maxDimension
Fits(img, maxDimension) ==
    img.width <= maxDimension /\ img.height <= maxDimension

\* Math.round(side * ratio), ratio = Math.min(maxDimension / img.width,
\* maxDimension / img.height)
Scaled(side, img, maxDimension) ==
    RoundDiv(side * maxDimension, Max(img.width, img.height))

ResizeIdle ==
    [pc           |-> "idle",
     call         |-> 0,
     dataUrl      |-> DataUrl("", 0, 0, FALSE),
     maxDimension |-> 0,
     img          |-> NoImage,
     encodes      |-> 0,
     first        |-> <<>>,
     result       |-> <<>>]

\* resizeImage(dataUrl, maxDimension) is called on an image
ResizeCall ==
    /\ resize.pc = "idle"
    /\ \E dataUrl \in ResizeUrls("P"), maxDimension \in MaxDimensions :
          resize' = [resize EXCEPT !.pc = "awaitLoad",
                                   !.call = 1,
                                   !.dataUrl = dataUrl,
                                   !.maxDimension = maxDimension]
    /\ UNCHANGED <<running, gif, render, sbs, html, downloads, capture, page,
                   sliders, save, sw>>

\* resizeImage is called again, on what the first call returned
ResizeAgain ==
    /\ resize.pc = "returned"
    /\ resize.call = 1
    /\ resize' = [resize EXCEPT !.pc = "awaitLoad",
                                !.call = 2,
                                !.dataUrl = resize.result[1],
                                !.first = resize.result,
                                !.result = <<>>,
                                !.img = NoImage]
    /\ UNCHANGED <<running, gif, render, sbs, html, downloads, capture, page,
                   sliders, save, sw>>

\* await loadImg(dataUrl) resolves; the rest of the function runs
ResizeLoaded ==
    /\ resize.pc = "awaitLoad"
    /\ resize.dataUrl.ok
    /\ LET img == Decoded(resize.dataUrl)
           m == resize.maxDimension
       IN  IF Fits(img, m)
           THEN resize' = [resize EXCEPT !.pc = "returned",
                                         !.img = img,
                                         !.result = <<resize.dataUrl>>]
           ELSE resize' = [resize EXCEPT
                             !.pc = "returned",
                             !.img = img,
                             !.encodes = @ + 1,
                             !.result = <<ResizedUrl(img.id,
                                                     Scaled(img.width, img, m),
                                                     Scaled(img.height, img, m))>>]
    /\ UNCHANGED <<running, gif, render, sbs, html, downloads, capture, page,
                   sliders, save, sw>>

\* await loadImg(dataUrl) rejects, and resizeImage with it
ResizeLoadRejects ==
    /\ resize.pc = "awaitLoad"
    /\ ~resize.dataUrl.ok
    /\ resize' = [resize EXCEPT !.pc = "rejected"]
    /\ UNCHANGED <<running, gif, render, sbs, html, downloads, capture, page,
                   sliders, save, sw>>

ResizeNext ==
    \/ ResizeCall
    \/ ResizeAgain
    \/ ResizeLoaded
    \/ ResizeLoadRejects

----------------------------------------------------------------------------
(* exportSideBySide, saveImage and shareImageFile (exporters.ts 25-102).   *)
(* exportSideBySide awaits the createSideBySide call modelled above; what  *)
(* the platform's share sheet does is the environment's choice.            *)

\* what navigator.share can reject with
ShareErrors == {"AbortError", "NotAllowedError", "DataError"}

SaveIdle ==
    [pc       |-> "idle",
     blob     |-> <<>>,
     canShare |-> FALSE,
     shares   |-> 0,
     outcome  |-> "",
     shared   |-> <<>>]

Settled(s) == s.pc \in {"done", "rejected"}

\* await createSideBySide(...) has a value to continue with
Resolved(s) == s.pc = "done"

\* dataUrlToBlob(result): the mime type of the header and the decoded bytes
dataUrlToBlob(dataUrl) == [type |-> "image/jpeg", content |-> dataUrl]

\* the catch block of shareImageFile: what it returns for an error
ReturnedOnError(err) == err = "AbortError"

\* saveImage after shareImageFile returned: if (!shared) downloadBlob(...)
AfterShare(shared, blob, filename) ==
    IF ~shared
    THEN DownloadBlob(blob.type, <<blob.content>>, filename)
    ELSE downloads

\* await createSideBySide rejects: exportSideBySide rejects at line 99
ExportRejects ==
    /\ save.pc = "idle"
    /\ sbs.pc = "rejected"
    /\ save' = [save EXCEPT !.pc = "rejected"]
    /\ UNCHANGED <<running, gif, render, sbs, html, downloads, capture, page,
                   sliders, resize, sw>>

\* await createSideBySide resolves: the blob is made and saveImage calls
\* shareImageFile, which returns false at once or calls navigator.share
ExportSaves ==
    /\ save.pc = "idle"
    /\ Resolved(sbs)
    /\ \E canShareFiles \in BOOLEAN :
          LET blob == dataUrlToBlob(sbs.result)
          IN  IF canShareFiles
              THEN /\ save' = [save EXCEPT !.pc = "awaitShare",
                                           !.blob = <<blob>>,
                                           !.canShare = TRUE,
                                           !.shares = @ + 1]
                   /\ UNCHANGED downloads
              ELSE /\ save' = [save EXCEPT !.pc = "done",
                                           !.blob = <<blob>>,
                                           !.outcome = "unsupported",
                                           !.shared = <<FALSE>>]
                   /\ downloads' = AfterShare(FALSE, blob, "before-after.jpg")
    /\ UNCHANGED <<running, gif, render, sbs, html, capture, page, sliders,
                   resize, sw>>

\* navigator.share resolves: the file was shared
ShareResolves ==
    /\ save.pc = "awaitShare"
    /\ save' = [save EXCEPT !.pc = "done",
                            !.outcome = "shared",
                            !.shared = <<TRUE>>]
    /\ downloads' = AfterShare(TRUE, save.blob[1], "before-after.jpg")
    /\ UNCHANGED <<running, gif, render, sbs, html, capture, page, sliders,
                   resize, sw>>

\* navigator.share rejects: the user dismissed the sheet (AbortError), or
\* the share failed
ShareRejects ==
    /\ save.pc = "awaitShare"
    /\ \E err \in ShareErrors :
          /\ save' = [save EXCEPT
                        !.pc = "done",
                        !.outcome = IF err = "AbortError"
                                    THEN "cancelled" ELSE "failed",
                        !.shared = <<ReturnedOnError(err)>>]
          /\ downloads' = AfterShare(ReturnedOnError(err), save.blob[1],
                                     "before-after.jpg")
    /\ UNCHANGED <<running, gif, render, sbs, html, capture, page, sliders,
                   resize, sw>>

SaveNext ==
    \/ ExportRejects
    \/ ExportSaves
    \/ ShareResolves
    \/ ShareRejects

\* one export at a time: a side-by-side JPEG through exportSideBySide, or
\* animated GIFs through createSliderGif
ExportNext ==
    \/ (\A e \in Exports : gif[e].pc = "idle") /\ (SbsNext \/ SaveNext)
    \/ (sbs.pc = "idle") /\ GifNext

----------------------------------------------------------------------------
(* The service worker (src/unnamed/part_002), installed and activated: its *)
(* cache holds the precached URLs.  The fetch handler answers from the     *)
(* network first; the cache write it starts for an ok basic response is    *)
(* not awaited by anything, so it completes in a later task.               *)

BASE == "/beforeafter/"

PRECACHE_URLS == {BASE, "/beforeafter/favicon.svg", "/beforeafter/icon-192.svg"}

\* the requests pages make: url, method, same origin or not, mode
Request(url, method, sameOrigin, mode) ==
    [url |-> url, method |-> method, sameOrigin |-> sameOrigin, mode |-> mode]

Requests ==
    { Request(BASE, "GET", TRUE, "navigate"),
      Request("/beforeafter/assets/index.js", "GET", TRUE, "no-cors"),
      Request("/beforeafter/api", "POST", TRUE, "cors"),
      Request("https://cdn.example/font.woff2", "GET", FALSE, "no-cors") }

\* the statuses the origin answers with
Statuses == {200, 206, 404}

MaxFetches == 3

\* lines 47-53: the handler calls respondWith only for same-origin GETs
Handled(request) == request.method = "GET" /\ request.sameOrigin

\* response.ok && response.type === 'basic', for a same-origin response
Cacheable(status) == status >= 200 /\ status <= 299

Response(source, url, status) ==
    [source |-> source, url |-> url, status |-> status]

WorkerIdle ==
    [net       |-> "up",
     cache     |-> PRECACHE_URLS,
     puts      |-> {},
     fetch     |-> <<>>,
     fetches   |-> 0,
     okEarlier |-> {},
     answer    |-> <<>>]

\* connectivity is lost or comes back
NetworkChanges ==
    /\ sw' = [sw EXCEPT !.net = IF sw.net = "up" THEN "down" ELSE "up"]
    /\ UNCHANGED <<running, gif, render, sbs, html, downloads, capture, page,
                   sliders, resize, save>>

\* a fetch event: the handler returns at once, or calls fetch(event.request)
FetchEvent ==
    /\ sw.fetch = <<>>
    /\ sw.fetches < MaxFetches
    /\ \E request \in Requests :
          sw' = IF Handled(request)
                THEN [sw EXCEPT
                        !.fetch = <<[request |-> request, pc |-> "network",
                                     okEarlier |-> request.url \in sw.okEarlier]>>,
                        !.fetches = @ + 1,
                        !.answer = <<>>]
                ELSE [sw EXCEPT
                        !.fetches = @ + 1,
                        !.answer = <<[response |-> Response("browser", request.url, 0),
                                      okEarlier |-> FALSE,
                                      offline |-> FALSE]>>]
    /\ UNCHANGED <<running, gif, render, sbs, html, downloads, capture, page,
                   sliders, resize, save>>

\* fetch(event.request) resolves: lines 57-66
FetchResolves ==
    /\ sw.fetch # <<>>
    /\ sw.fetch[1].pc = "network"
    /\ sw.net = "up"
    /\ \E status \in Statuses :
          LET request == sw.fetch[1].request
          IN  sw' = [sw EXCEPT
                       !.fetch = <<>>,
                       !.puts = IF Cacheable(status)
                                THEN @ \cup {[url |-> request.url,
                                               status |-> status]}
                                ELSE @,
                       !.okEarlier = IF Cacheable(status)
                                     THEN @ \cup {request.url} ELSE @,
                       !.answer = <<[response |-> Response("network", request.url,
                                                           status),
                                     okEarlier |-> sw.fetch[1].okEarlier,
                                     offline |-> FALSE]>>]
    /\ UNCHANGED <<running, gif, render, sbs, html, downloads, capture, page,
                   sliders, resize, save>>

\* fetch(event.request) rejects: the catch handler calls caches.match
FetchRejects ==
    /\ sw.fetch # <<>>
    /\ sw.fetch[1].pc = "network"
    /\ sw.net = "down"
    /\ sw' = [sw EXCEPT !.fetch[1].pc = "match"]
    /\ UNCHANGED <<running, gif, render, sbs, html, downloads, capture, page,
                   sliders, resize, save>>

\* caches.match(event.request) resolves: lines 69-76
CacheMatchAnswers ==
    /\ sw.fetch # <<>>
    /\ sw.fetch[1].pc = "match"
    /\ LET request == sw.fetch[1].request
           response ==
               IF request.url \in sw.cache
               THEN Response("cache", request.url, 200)
               ELSE IF request.mode = "navigate"
               THEN IF BASE \in sw.cache
                    THEN Response("cache", BASE, 200)
                    ELSE Response("none", request.url, 0)
               ELSE Response("offline", request.url, 503)
       IN  sw' = [sw EXCEPT
                    !.fetch = <<>>,
                    !.answer = <<[response |-> response,
                                  okEarlier |-> sw.fetch[1].okEarlier,
                                  offline |-> TRUE]>>]
    /\ UNCHANGED <<running, gif, render, sbs, html, downloads, capture, page,
                   sliders, resize, save>>

\* cache.put(request, response) stores the response, except a partial (206)
\* one, for which it rejects
Storable(status) == status # 206

\* caches.open(CACHE_NAME).then(cache => cache.put(request, clone)) settles;
\* nothing handles its rejection
CachePutSettles ==
    /\ \E put \in sw.puts :
          sw' = [sw EXCEPT !.puts = @ \ {put},
                           !.cache = IF Storable(put.status)
                                     THEN @ \cup {put.url} ELSE @]
    /\ UNCHANGED <<running, gif, render, sbs, html, downloads, capture, page,
                   sliders, resize, save>>

WorkerNext ==
    \/ NetworkChanges
    \/ FetchEvent
    \/ FetchResolves
    \/ FetchRejects
    \/ CacheMatchAnswers
    \/ CachePutSettles

----------------------------------------------------------------------------
(* Specifications.                                                         *)

Init ==
    /\ GifInit
    /\ render = RenderIdle
    /\ sbs = SbsIdle
    /\ html = HtmlIdle
    /\ downloads = <<>>
    /\ capture = CaptureIdle
    /\ page = PageIdle
    /\ sliders = SlidersIdle
    /\ resize = ResizeIdle
    /\ save = SaveIdle
    /\ sw = WorkerIdle

Next == GifNext

\* concurrent createSliderGif exports
Spec == Init /\ [][Next]_vars

InitRender ==
    /\ GifInit
    /\ RenderInit
    /\ sbs = SbsIdle
    /\ html = HtmlIdle
    /\ downloads = <<>>
    /\ capture = CaptureIdle
    /\ page = PageIdle
    /\ sliders = SlidersIdle
    /\ resize = ResizeIdle
    /\ save = SaveIdle
    /\ sw = WorkerIdle

\* renderSliderFrame as a function of its arguments
SpecRender == InitRender /\ [][ApplyRender]_vars

\* one createSideBySide call
SpecSideBySide == Init /\ [][SbsNext]_vars

\* one exportHtmlSlider call
SpecHtml == Init /\ [][HtmlNext]_vars

\* the exported slider document under pointer and keyboard events
SpecPage == Init /\ [][PageNext]_vars

\* the in-app sliders being opened, re-opened and closed
SpecSliders == Init /\ [][SlidersNext]_vars

\* the three sliders in use: the app's two, or the exported document in a
\* page of its own
SurfacesNext ==
    \/ page.pc = "idle" /\ GesturesNext
    \/ sliders = SlidersIdle /\ PageNext

SpecSurfaces == Init /\ [][SurfacesNext]_vars

\* resizeImage, applied once and then to its own result
SpecResize == Init /\ [][ResizeNext]_vars

\* an export from the export screen, with the share sheet's answers
SpecExport == Init /\ [][ExportNext]_vars

\* the service worker answering fetch events as connectivity changes
SpecWorker == Init /\ [][WorkerNext]_vars

\* captureFrame calls on a live video element
SpecCapture == Init /\ [][CaptureNext]_vars

----------------------------------------------------------------------------
(* Properties.                                                             *)

\* the larger of the two inputs' widths and heights, from the data URLs
SbsMaxWidth ==
    IF sbs.before.width >= sbs.after.width
    THEN sbs.before.width ELSE sbs.after.width

SbsMaxHeight ==
    IF sbs.before.height >= sbs.after.height
    THEN sbs.before.height ELSE sbs.after.height

\* C1: with no watermark the canvas createSideBySide returns is exactly
\* 2 * max(before.width, after.width) + 4 wide and max(before.height,
\* after.height) tall; two 800x600 inputs give 1604x600.
C1_CanvasSize ==
    (sbs.pc = "done" /\ sbs.opt.watermark = <<>>) =>
        /\ sbs.canvas.width = 2 * SbsMaxWidth + 4
        /\ sbs.canvas.height = SbsMaxHeight
        /\ sbs.result = <<DataUrl("sideBySide", 2 * SbsMaxWidth + 4,
                                  SbsMaxHeight, TRUE)>>
        /\ (/\ sbs.before.width = 800 /\ sbs.before.height = 600
            /\ sbs.after.width = 800 /\ sbs.after.height = 600)
           => (sbs.canvas.width = 1604 /\ sbs.canvas.height = 600)

C1_Witness ==
    /\ sbs.pc = "done"
    /\ sbs.opt.watermark = <<>>
    /\ sbs.before.width = 800 /\ sbs.before.height = 600
    /\ sbs.after.width = 800 /\ sbs.after.height = 600
    /\ sbs.canvas.width = 1604

\* the export has built its frame list
FramesBuilt(e) == gif[e].frames # <<>>

\* C2 as stated: the frame sequence createSliderGif builds has exactly 30
\* frames.
C2_ThirtyFrames ==
    \A e \in Exports : FramesBuilt(e) => Len(gif[e].frames) = 30

\* C2, amended: the frame sequence createSliderGif builds has exactly 28
\* frames for every pair of inputs (1 hold, 13 eased, 1 hold, 13 eased), and
\* a finished export has written 28 frames.
C2_TwentyEightFrames ==
    \A e \in Exports :
        /\ FramesBuilt(e) => Len(gif[e].frames) = 28
        /\ gif[e].pc \in {"render", "rendered", "awaitYield", "finish", "done"}
              => FramesBuilt(e)
        /\ gif[e].finished => Len(gif[e].written) = 28

C2_Witness ==
    \E e \in Exports :
        /\ gif[e].pc = "done"
        /\ Len(gif[e].frames) = 28
        /\ Len(gif[e].blob) = 28

\* C3 as stated: of the frames written, the first and the last have a delay
\* of 1000 ms and every frame between them 80 ms.
C3_FirstAndLastHold ==
    \A e \in Exports :
        gif[e].finished =>
            LET wr == gif[e].written
            IN  /\ wr[1].opts.delay = 1000
                /\ wr[Len(wr)].opts.delay = 1000
                /\ \A k \in 2 .. (Len(wr) - 1) : wr[k].opts.delay = 80

\* C3, amended: of the frames written, the first (index 0) and the fifteenth
\* (index 14, the hold on AFTER) have a delay of 1000 ms and every other
\* frame, the last one included, has a delay of 80 ms.
C3_HoldsAtStartAndMiddle ==
    \A e \in Exports :
        \A k \in 1 .. Len(gif[e].written) :
            gif[e].written[k].opts.delay = IF k \in {1, 15} THEN 1000 ELSE 80

C3_Witness ==
    \E e \in Exports :
        /\ gif[e].finished
        /\ gif[e].written[1].opts.delay = 1000
        /\ gif[e].written[15].opts.delay = 1000
        /\ gif[e].written[Len(gif[e].written)].opts.delay = 80

\* a frame has been rendered or written, or the loop is about to render one
PastPalette(e) ==
    \/ gif[e].pc \in {"render", "rendered", "awaitYield", "finish", "done"}
    \/ gif[e].written # <<>>
    \/ gif[e].canvas.labels # <<>>

C4_PaletteShared ==
    \A e \in Exports :
        /\ gif[e].quantized <= 1
        /\ PastPalette(e) =>
              /\ gif[e].quantized = 1
              /\ gif[e].palette.before = gif[e].before.id
              /\ gif[e].palette.after = gif[e].after.id
        /\ \A k \in 1 .. Len(gif[e].written) :
              /\ gif[e].written[k].index.palette = gif[e].palette
              /\ gif[e].written[k].opts.palette =
                    IF k = 1 THEN <<gif[e].palette>> ELSE <<>>

C4_PaletteStable ==
    \A e \in Exports :
        gif[e].quantized = 1 =>
            /\ gif'[e].quantized = 1
            /\ gif'[e].palette = gif[e].palette

\* C4: within one export the palette is computed exactly once, before the
\* first frame is rendered or written, is never reassigned afterwards, and is
\* the palette applied to every frame of that export.
C4_PaletteOnce == []C4_PaletteShared /\ [][C4_PaletteStable]_vars

C4_Witness ==
    /\ \A e \in Exports : gif[e].pc = "done" /\ gif[e].quantized = 1
    /\ gif["e1"].palette # gif["e2"].palette
    /\ \A e \in Exports : gif[e].written[28].index.palette = gif[e].palette

C5_InOrder ==
    \A e \in Exports :
        LET g == gif[e]
        IN  /\ Len(g.written) <= Len(g.frames)
            /\ \A k \in 1 .. Len(g.written) :
                  /\ g.written[k].f = k - 1
                  /\ g.written[k].opts.delay = g.frames[k].delay
                  /\ 2 * PctDen * g.written[k].index.pixels.splitX
                        <= 2 * g.w * g.frames[k].pct + PctDen
                  /\ 2 * PctDen * (g.written[k].index.pixels.splitX + 1)
                        > 2 * g.w * g.frames[k].pct + PctDen
            /\ g.finished => (g.frames # <<>> /\ Len(g.written) = Len(g.frames))

C5_OneAtATime ==
    \A e \in Exports :
        LET old == gif[e].written
            new == gif'[e].written
        IN  /\ \/ new = old
               \/ /\ Len(new) = Len(old) + 1
                  /\ SubSeq(new, 1, Len(old)) = old
                  /\ ~gif[e].finished
            /\ gif[e].finished => gif'[e].finished

\* C5: frames are written strictly in sequence order: writeFrame is called
\* once per frame, for index 0, 1, ..., n-1 in that order, and finish is
\* called only after the last frame has been written.
C5_FramesInSequence == []C5_InOrder /\ [][C5_OneAtATime]_vars

C5_Witness ==
    \E e \in Exports :
        /\ gif[e].finished
        /\ Len(gif[e].written) = Len(gif[e].frames)
        /\ gif[e].written[Len(gif[e].written)].f = Len(gif[e].frames) - 1

\* C6: control is yielded at least once every 5 frames: no more than 5
\* consecutive frames are rendered and written without a yield in between.
C6_YieldEveryFive ==
    \A e \in Exports :
        /\ gif[e].run <= 5
        /\ gif[e].pc = "awaitYield" => gif[e].run \in 1 .. 5

C6_Witness ==
    \E e \in Exports : gif[e].run = 5 /\ gif[e].pc = "awaitYield" /\ gif[e].yields >= 1

\* the frame export e would write k-th when running alone
FrameAlone(e, k) ==
    LET b == Decoded(gif[e].before)
        a == Decoded(gif[e].after)
        w == WorkingW(b, a)
        h == WorkingH(b, a)
        pal == Quantize(DrawnAlone(b, w, h), DrawnAlone(a, w, h))
    IN  [f     |-> k - 1,
         index |-> ApplyPalette(
                       renderSliderFrame(b, a, w, h, BuildFrames[k].pct), pal),
         w     |-> w,
         h     |-> h,
         opts  |-> [delay   |-> BuildFrames[k].delay,
                    palette |-> IF k = 1 THEN <<pal>> ELSE <<>>]]

\* C7: an export is never suspended in the middle of a frame (between
\* rendering it and writing it no other task runs), so exports interleaved
\* at their suspension points each write exactly the frames they would write
\* alone.
C7_NoMidFrameSuspension ==
    \A e \in Exports :
        /\ gif[e].pc \in {"render", "rendered", "finish"} => running = e
        /\ gif[e].pc = "rendered" =>
              \A o \in Exports \ {e} :
                  gif[o].pc \notin {"render", "rendered", "finish"}
        /\ \A k \in 1 .. Len(gif[e].written) :
              gif[e].written[k] = FrameAlone(e, k)

C7_Witness ==
    /\ gif["e1"].pc = "rendered"
    /\ gif["e2"].pc = "awaitYield"
    /\ gif["e1"].written # <<>>
    /\ gif["e2"].written # <<>>
    /\ gif["e1"].before.id # gif["e2"].before.id

\* C8: renderSliderFrame draws the divider line and the handle iff
\* splitX = round(w * pct) satisfies 2 < splitX < w - 2: never at pct = 0 or
\* pct = 1, and at pct = 0.5 on a 480 px wide frame centred at x = 240.
C8_HandleSuppressedAtEdges ==
    render.pc = "drawn" =>
        /\ \E s \in 0 .. render.w :
              /\ 2 * PctDen * s <= 2 * render.w * render.pct + PctDen
              /\ 2 * render.w * render.pct + PctDen < 2 * PctDen * (s + 1)
              /\ render.canvas.handle <=> (2 < s /\ s < render.w - 2)
              /\ render.canvas.handle =>
                    /\ render.canvas.handleX = s
                    /\ render.canvas.lineLeft2 = 2 * s - 3
        /\ render.pct \in {0, PctDen} =>
              /\ ~render.canvas.handle
              /\ render.canvas.radius = 0
        /\ (render.w = 480 /\ 2 * render.pct = PctDen) =>
              (render.canvas.handle /\ render.canvas.handleX = 240)

C8_Witness ==
    /\ render.pc = "drawn"
    /\ render.w = 480
    /\ 2 * render.pct = PctDen
    /\ render.canvas.handle
    /\ render.canvas.handleX = 240

\* the input declares an image format: its first 11 characters are data:image/
DeclaresImage(url) ==
    /\ Len(url) >= 11
    /\ SubSeq(url, 1, 11) = DataImage

\* C9: exportHtmlSlider fails with an error whenever the before or the after
\* input does not start with data:image/, and then builds no document and
\* triggers no download.
C9_RejectsNonImages ==
    (html.pc # "idle" /\ (~DeclaresImage(html.before) \/ ~DeclaresImage(html.after)))
        => /\ html.pc = "rejected"
           /\ html.error = "Invalid image data"
           /\ html.document = NoDocument
           /\ downloads = <<>>

C9_Witness ==
    /\ html.pc = "rejected"
    /\ DeclaresImage(html.before)
    /\ Len(html.after) >= Len(DataText)
    /\ SubSeq(html.after, 1, Len(DataText)) = DataText
    /\ downloads = <<>>

Entities == {Amp, Lt, Gt, Quot, Apos}

EntityChar(entity) ==
    CASE entity = Amp -> "&"
      [] entity = Lt -> "<"
      [] entity = Gt -> ">"
      [] entity = Quot -> "\""
      [] entity = Apos -> "'"

\* the entity that begins at position i of s, if any
EntitiesAt(s, i) ==
    {en \in Entities :
        i + Len(en) - 1 <= Len(s) /\ SubSeq(s, i, i + Len(en) - 1) = en}

RECURSIVE Unescape(_)
\* what a document renderer reads back from escaped attribute text
Unescape(s) ==
    IF s = <<>>
    THEN <<>>
    ELSE IF EntitiesAt(s, 1) # {}
         THEN LET en == CHOOSE x \in EntitiesAt(s, 1) : TRUE
              IN  <<EntityChar(en)>> \o Unescape(SubSeq(s, Len(en) + 1, Len(s)))
         ELSE <<Head(s)>> \o Unescape(Tail(s))

SafelyEscaped(raw, escaped) ==
    /\ \A i \in 1 .. Len(escaped) :
          /\ escaped[i] \notin {"<", ">", "\"", "'"}
          /\ escaped[i] = "&" => EntitiesAt(escaped, i) # {}
    /\ Unescape(escaped) = raw

\* C10: for every accepted input the image data embedded in the document has
\* no raw <, >, " or ', every & in it begins one of the five entities, and
\* reading the entities back gives the input (nothing raw, nothing escaped
\* twice).
C10_EmbeddedDataEscaped ==
    html.pc = "done" =>
        /\ html.document # NoDocument
        /\ SafelyEscaped(html.before, html.document[1].beforeSrc)
        /\ SafelyEscaped(html.after, html.document[1].afterSrc)
        /\ downloads = <<[filename |-> "before-after-slider.html",
                          type |-> "text/html", content |-> html.document]>>

C10_Witness ==
    /\ html.pc = "done"
    /\ html.before = DataImage \o <<"&", "<">>
    /\ html.document[1].beforeSrc = DataImage \o Amp \o Lt
    /\ html.after = DataImage \o <<"<">>

\* C14: createSideBySide draws each image centred in its own half: before at
\* x = (w - before.width) / 2, after at x = w + 4 + (w - after.width) / 2,
\* each at y = (h - height) / 2, so left and right margins are equal and top
\* and bottom margins are equal; before 800x600 with after 400x600 leaves the
\* after image 200 px on both sides.  Offsets and margins are in half pixels.
C14_CentredInHalves ==
    sbs.pc = "done" =>
        LET c == sbs.canvas
            w == SbsMaxWidth
            h == SbsMaxHeight
            beforeLeft2  == c.bx2
            beforeRight2 == 2 * w - c.bx2 - 2 * sbs.before.width
            afterLeft2   == c.ax2 - 2 * (w + 4)
            afterRight2  == 2 * (2 * w + 4) - c.ax2 - 2 * sbs.after.width
        IN  /\ c.bx2 = w - sbs.before.width
            /\ c.ax2 = 2 * (w + 4) + (w - sbs.after.width)
            /\ c.by2 = h - sbs.before.height
            /\ c.ay2 = h - sbs.after.height
            /\ beforeLeft2 = beforeRight2
            /\ afterLeft2 = afterRight2
            /\ c.by2 = 2 * h - c.by2 - 2 * sbs.before.height
            /\ c.ay2 = 2 * h - c.ay2 - 2 * sbs.after.height
            /\ (/\ sbs.before.width = 800 /\ sbs.before.height = 600
                /\ sbs.after.width = 400 /\ sbs.after.height = 600)
               => (afterLeft2 = 400 /\ afterRight2 = 400)

C14_Witness ==
    /\ sbs.pc = "done"
    /\ sbs.before.width = 800 /\ sbs.before.height = 600
    /\ sbs.after.width = 400 /\ sbs.after.height = 600
    /\ sbs.canvas.ax2 = 2 * 1004
    /\ sbs.canvas.bx2 = 0

\* the watermark has a character that trim() keeps
HasVisibleText(watermark) ==
    \E i \in 1 .. Len(watermark) : watermark[i] \notin {" ", "\t", "\n"}

\* C15 as stated: a watermark with non-empty trimmed text adds a strip of
\* height exactly max(36, 0.04 * h), for every h (heights in hundredths).
C15_StripExactlyFourPercent ==
    (sbs.pc = "done" /\ HasVisibleText(sbs.opt.watermark)) =>
        /\ 100 * sbs.canvas.stripH =
              (IF 4 * SbsMaxHeight >= 3600 THEN 4 * SbsMaxHeight ELSE 3600)
        /\ sbs.canvas.height = SbsMaxHeight + sbs.canvas.stripH

\* C15, amended: a watermark with non-empty trimmed text adds a strip of
\* height exactly max(36, floor(0.04 * h)), h the larger image height.
C15_StripFlooredFourPercent ==
    (sbs.pc = "done" /\ HasVisibleText(sbs.opt.watermark)) =>
        LET s == sbs.canvas.stripH
            h == SbsMaxHeight
        IN  /\ s >= 36
            /\ 4 * h < 3700 => s = 36
            /\ 4 * h >= 3600 => (100 * s <= 4 * h /\ 4 * h < 100 * (s + 1))
            /\ sbs.canvas.strip
            /\ sbs.canvas.stripY = h
            /\ sbs.canvas.height = h + s

C15_Witness ==
    /\ sbs.pc = "done"
    /\ HasVisibleText(sbs.opt.watermark)
    /\ SbsMaxHeight = 930
    /\ sbs.canvas.stripH = 37
    /\ sbs.canvas.height = 967

\* C16: an empty or whitespace-only watermark is treated exactly like no
\* watermark: the canvas is as high as the larger image and no strip or
\* watermark text is drawn.
C16_BlankWatermarkIgnored ==
    (sbs.pc = "done" /\ ~HasVisibleText(sbs.opt.watermark)) =>
        /\ sbs.canvas.height = SbsMaxHeight
        /\ ~sbs.canvas.strip
        /\ sbs.canvas.stripH = 0
        /\ sbs.canvas.wmText = <<>>
        /\ sbs.canvas.wmFontSize = 0

C16_Witness ==
    /\ sbs.pc = "done"
    /\ sbs.opt.watermark = <<" ", " ">>
    /\ sbs.canvas.height = SbsMaxHeight
    /\ ~sbs.canvas.strip

\* C17: a label gets a date suffix iff showDates is true and that side's own
\* timestamp is provided; a missing timestamp removes only that side's
\* suffix, and the base text BEFORE / AFTER is drawn in every case.
C17_DateSuffixPerSide ==
    sbs.pc = "done" =>
        LET c == sbs.canvas
        IN  /\ c.beforeText # <<>> /\ c.beforeText[1] = "BEFORE"
            /\ c.afterText # <<>> /\ c.afterText[1] = "AFTER"
            /\ Len(c.beforeText) > 1
                  <=> (sbs.opt.showDates /\ sbs.opt.beforeDate # <<>>)
            /\ Len(c.afterText) > 1
                  <=> (sbs.opt.showDates /\ sbs.opt.afterDate # <<>>)
            /\ Len(c.beforeText) > 1 =>
                  SubSeq(c.beforeText, 3, Len(c.beforeText))
                      = <<"Feb", " ", "19", ", ", "2026">>

C17_Witness ==
    /\ sbs.pc = "done"
    /\ sbs.opt.showDates
    /\ sbs.opt.beforeDate # <<>>
    /\ sbs.opt.afterDate = <<>>
    /\ Len(sbs.canvas.beforeText) > 1
    /\ sbs.canvas.afterText = <<"AFTER">>

\* the larger width and the larger height of the two decoded inputs
SrcW(e) == Max(gif[e].beforeImg.width, gif[e].afterImg.width)

SrcH(e) == Max(gif[e].beforeImg.height, gif[e].afterImg.height)

\* C18 as stated: the working resolution has both its width and its height
\* capped at 480 pixels, for all inputs.
C18_BothDimensionsCapped ==
    \A e \in Exports :
        FramesBuilt(e) => gif[e].w <= 480 /\ gif[e].h <= 480

\* C18, amended: the working width is at most 480; width and height are the
\* source dimensions multiplied by the one factor min(1, 480 / srcW) and
\* rounded, so neither is larger than the source; the height is not capped
\* and exceeds 480 for inputs taller than wide enough.
C18_WidthCappedOneScale ==
    \A e \in Exports :
        FramesBuilt(e) =>
            LET num == IF SrcW(e) <= 480 THEN 1 ELSE 480
                den == IF SrcW(e) <= 480 THEN 1 ELSE SrcW(e)
            IN  /\ gif[e].w <= 480
                /\ gif[e].w = RoundDiv(SrcW(e) * num, den)
                /\ gif[e].h = RoundDiv(SrcH(e) * num, den)
                /\ gif[e].w <= SrcW(e)
                /\ gif[e].h <= SrcH(e)
                /\ gif[e].canvas.w = gif[e].w
                /\ gif[e].canvas.h = gif[e].h

C18_Witness ==
    /\ FramesBuilt("e1") /\ FramesBuilt("e2")
    /\ SrcW("e1") = 600 /\ SrcH("e1") = 1301
    /\ gif["e1"].w = 480 /\ gif["e1"].h = 1041
    /\ SrcW("e2") = 480 /\ SrcH("e2") = 960
    /\ gif["e2"].w = 480 /\ gif["e2"].h = 960

\* the call read a width or a height of zero from the video element
ZeroSource == capture.atCall.w = 0 \/ capture.atCall.h = 0

\* C19 as stated: captureFrame called on a source whose width or height is
\* zero fails with an error and returns no encoded image.
C19_ZeroSourceFails ==
    (capture.pc # "idle" /\ ZeroSource) =>
        capture.threw /\ capture.result = <<>>

\* C20: the canvas captureFrame rasterizes has the width and height the
\* video element reports during the call, whatever DEFAULT_OPTIONS asked
\* for, and whenever its output decodes the bitmap has those dimensions;
\* the output decodes for every source with pixels.
C20_NativeDimensions ==
    /\ capture.pc # "idle" => capture.canvas = capture.atCall
    /\ capture.pc = "decoded" => capture.bitmap = <<capture.atCall>>
    /\ capture.pc = "undecodable" => ZeroSource

C20_Witness ==
    /\ capture.pc = "decoded"
    /\ capture.atCall = Size(2, 1)
    /\ capture.bitmap = <<Size(2, 1)>>
    /\ capture.video = Size(1920, 1080)

\* C11 as stated: from every position p the handle can be at, 0 and 100
\* included, ArrowRight moves it to min(100, p + 2) and ArrowLeft to
\* max(0, p - 2), and any other key leaves it where it was.
C11_ArrowKeysStepByTwo ==
    LET p == page.prev
        now == HandlePosition(page)
        two == 2 * page.width
        full == 100 * page.width
    IN  /\ page.last = "ArrowRight" =>
              now = IF p + two > full THEN full ELSE p + two
        /\ page.last = "ArrowLeft" =>
              now = IF p - two < 0 THEN 0 ELSE p - two
        /\ page.last = "Home" => now = p

\* C12: the container has role slider with aria-valuemin 0 and
\* aria-valuemax 100, and after any sequence of clicks, drags and arrow keys
\* aria-valuenow is an integer in [0, 100] equal to the handle position
\* rounded to the nearest integer, 50 before any of them.
C12_AriaFollowsHandle ==
    page.pc = "open" =>
        /\ page.role = "slider"
        /\ page.valuemin = 0
        /\ page.valuemax = 100
        /\ page.valuenow \in 0 .. 100
        /\ 2 * page.width * page.valuenow <= 2 * HandlePosition(page) + page.width
        /\ 2 * page.width * page.valuenow > 2 * HandlePosition(page) - page.width
        /\ page.left = <<>> => page.valuenow = 50
        /\ page.overlay = page.left

C12_Witness ==
    /\ page.pc = "open"
    /\ page.width = 3
    /\ page.last = "ArrowRight"
    /\ page.prev = 200
    /\ HandlePosition(page) = 206
    /\ page.valuenow = 69

\* the session a region's cleanup slot refers to, if any
Slot(region) ==
    IF region = "inline"
    THEN sliders.inlineSliderCleanup
    ELSE sliders.fullscreenSliderCleanup

ListenersOf(region) == {l \in sliders.listeners : l.region = region}

\* every listener of a region belongs to the one session in its slot
SingleSession(region) ==
    /\ Slot(region) = <<>> => ListenersOf(region) = {}
    /\ Slot(region) # <<>> =>
          \A l \in ListenersOf(region) : l.session = Slot(region)[1].id

\* what the last call left behind
AfterLastCall ==
    /\ sliders.last[1] \in {"destroy", "close"} =>
          /\ Slot(sliders.last[2]) = <<>>
          /\ ListenersOf(sliders.last[2]) = {}
    /\ sliders.last[1] = "init" =>
          /\ Slot(sliders.last[2]) # <<>>
          /\ Slot(sliders.last[2])[1].id = Len(sliders.closures)
          /\ ListenersOf(sliders.last[2]) # {}
    /\ \A l \in sliders.listeners : l.session # sliders.last[3]

\* C13 as stated: at most one active session per region, every listener of
\* the previous session gone after a re-init, none after destroy, and each
\* event type has at most one registered handler per region.
C13_OneHandlerPerEventType ==
    /\ \A region \in Regions : SingleSession(region)
    /\ AfterLastCall
    /\ \A l1, l2 \in sliders.listeners :
          (l1.region = l2.region /\ l1.type = l2.type) => l1 = l2

\* C13, amended: at most one active session per region, every listener of
\* the previous session gone after a re-init, none after destroy or close,
\* and each event type has at most one registered handler per target node
\* and region (a fullscreen session listens for click on its close button,
\* its container and its wrapper).
C13_OneHandlerPerTargetAndType ==
    /\ \A region \in Regions : SingleSession(region)
    /\ AfterLastCall
    /\ \A l1, l2 \in sliders.listeners :
          (l1.region = l2.region /\ l1.node = l2.node /\ l1.type = l2.type)
              => l1 = l2

C13_Witness ==
    /\ sliders.last = <<"init", "fullscreen", 1>>
    /\ Len(sliders.closures) = 3
    /\ sliders.closed = <<1>>
    /\ sliders.inlineSliderCleanup # <<>>
    /\ sliders.inlineSliderCleanup[1].id = 2
    /\ Cardinality(ListenersOf("inline")) = 10
    /\ Cardinality(ListenersOf("fullscreen")) = 12
    /\ Cardinality({l \in ListenersOf("fullscreen") : l.type = "click"}) = 3

\* frames first .. last of a list are 80 ms frames strictly inside (0, 1)
EasedRun(frames, first, last) ==
    \A k \in first .. last :
        /\ frames[k].delay = 80
        /\ frames[k].pct > 0
        /\ frames[k].pct < PctDen

\* C25: the frame sequence is one 1000 ms hold at position 1, 13 frames of
\* 80 ms strictly decreasing inside (0, 1), one 1000 ms hold at position 0,
\* and 13 frames of 80 ms strictly increasing inside (0, 1); every position
\* is in [0, 1].
C25_HoldEaseHoldEase ==
    \A e \in Exports :
        FramesBuilt(e) =>
            LET frames == gif[e].frames
            IN  /\ Len(frames) = 28
                /\ frames[1] = Frame(PctDen, 1000)
                /\ EasedRun(frames, 2, 14)
                /\ \A k \in 2 .. 13 : frames[k].pct > frames[k + 1].pct
                /\ frames[15] = Frame(0, 1000)
                /\ EasedRun(frames, 16, 28)
                /\ \A k \in 16 .. 27 : frames[k].pct < frames[k + 1].pct
                /\ \A k \in 1 .. 28 : frames[k].pct \in 0 .. PctDen

C25_Witness ==
    /\ gif["e1"].pc = "done"
    /\ Len(gif["e1"].written) = 28
    /\ gif["e1"].frames[2].pct = PctDen - 2
    /\ gif["e1"].frames[14].pct = 2
    /\ gif["e1"].frames[16].pct = 2
    /\ gif["e1"].frames[28].pct = PctDen - 2

\* C30: each drawn rectangle lies inside its own w x h half of the canvas:
\* the before image within x in [0, w], the after image within
\* [w + 4, 2w + 4], both within y in [0, h], so neither touches the divider
\* columns [w, w + 4) or the other half.  Coordinates in half pixels.
C30_DrawnInsideOwnHalf ==
    sbs.pc = "done" =>
        LET c == sbs.canvas
            w == SbsMaxWidth
            h == SbsMaxHeight
        IN  /\ c.bx2 >= 0
            /\ c.bx2 + 2 * c.bw <= 2 * w
            /\ c.by2 >= 0
            /\ c.by2 + 2 * c.bh <= 2 * h
            /\ c.ax2 >= 2 * (w + 4)
            /\ c.ax2 + 2 * c.aw <= 2 * (2 * w + 4)
            /\ c.ay2 >= 0
            /\ c.ay2 + 2 * c.ah <= 2 * h
            /\ c.bw = sbs.before.width /\ c.bh = sbs.before.height
            /\ c.aw = sbs.after.width /\ c.ah = sbs.after.height
            /\ c.bx2 + 2 * c.bw <= 2 * c.dividerX
            /\ c.ax2 >= 2 * (c.dividerX + c.dividerW)
            /\ c.ax2 + 2 * c.aw <= 2 * c.width

C30_Witness ==
    /\ sbs.pc = "done"
    /\ sbs.before.width = 1 /\ sbs.before.height = 930
    /\ sbs.after.width = 800 /\ sbs.after.height = 1
    /\ sbs.canvas.bx2 = 799
    /\ sbs.canvas.ay2 = 929
    /\ sbs.canvas.ax2 = 1608

\* the image a data URL decodes to has both sides at most m, the larger is m
LargerSideIs(dataUrl, m) ==
    /\ dataUrl.ok
    /\ dataUrl.width <= m /\ dataUrl.height <= m
    /\ Max(dataUrl.width, dataUrl.height) = m

\* C24 as stated: resizeImage returns its input unchanged when both sides
\* are at most maxDimension; otherwise the result is an image with both sides
\* at most maxDimension and the larger equal to it; applied to its own
\* result it returns that result unchanged.
C24_ResizeIdempotent ==
    /\ (resize.pc = "returned" /\ resize.call = 1) =>
          IF Fits(resize.img, resize.maxDimension)
          THEN resize.result = <<resize.dataUrl>> /\ resize.encodes = 0
          ELSE LargerSideIs(resize.result[1], resize.maxDimension)
    /\ resize.call = 2 =>
          /\ resize.pc # "rejected"
          /\ resize.pc = "returned" =>
                resize.result = resize.first /\ resize.encodes <= 1

\* an input of the createSideBySide call does not decode
SbsInputFails == sbs.pc # "idle" /\ (~sbs.before.ok \/ ~sbs.after.ok)

\* an input of createSliderGif call e does not decode
GifInputFails(e) == gif[e].pc # "idle" /\ (~gif[e].before.ok \/ ~gif[e].after.ok)

\* C21: if either input fails to decode, createSideBySide and
\* createSliderGif reject because of that failure and produce no encoded
\* output; each input is handed to the decoder once; and exportSideBySide
\* neither shares nor downloads anything.
C21_DecodeFailurePropagates ==
    /\ sbs.decodes <= 2
    /\ sbs.pc = "rejected" => "error" \in {sbs.loadB, sbs.loadA}
    /\ SbsInputFails =>
          /\ sbs.pc \in {"awaitLoad", "rejected"}
          /\ sbs.result = <<>>
          /\ sbs.canvas = NoCanvas
          /\ (sbs.loadB # "pending" /\ ~sbs.before.ok) => sbs.loadB = "error"
          /\ (sbs.loadA # "pending" /\ ~sbs.after.ok) => sbs.loadA = "error"
          /\ save.pc \in {"idle", "rejected"}
          /\ save.pc = "rejected" => sbs.pc = "rejected"
          /\ save.blob = <<>>
          /\ save.shares = 0
          /\ downloads = <<>>
    /\ \A e \in Exports :
          /\ gif[e].decodes <= 2
          /\ gif[e].pc = "rejected" => "error" \in {gif[e].loadB, gif[e].loadA}
          /\ GifInputFails(e) =>
                /\ gif[e].pc \in {"awaitImport", "awaitLoad", "rejected"}
                /\ gif[e].frames = <<>>
                /\ gif[e].written = <<>>
                /\ gif[e].blob = <<>>
                /\ ~gif[e].finished

C21_Witness ==
    /\ sbs.pc = "rejected"
    /\ sbs.before.ok /\ sbs.loadB = "loaded"
    /\ ~sbs.after.ok /\ sbs.loadA = "error"
    /\ sbs.decodes = 2
    /\ save.pc = "rejected"
    /\ downloads = <<>>

\* C22 as stated: shareImageFile returns true only when the share
\* succeeded, false when sharing is unsupported or the user cancelled;
\* saveImage downloads whenever sharing is unsupported, fails or is
\* cancelled, and never after a successful share.
C22_DownloadUnlessShared ==
    save.pc = "done" =>
        /\ save.shared = <<save.outcome = "shared">>
        /\ save.outcome \in {"unsupported", "failed", "cancelled"} =>
              Len(downloads) = 1
        /\ save.outcome = "shared" => downloads = <<>>

\* C23 as stated: a handled request whose network fetch succeeded earlier
\* with an ok basic response is, when fetched again while the network is
\* down, answered with the cached response and not with the 503 'Offline'
\* response; an answer given while the network is up is the network's.
C23_OfflineAfterFirstFetch ==
    sw.answer # <<>> =>
        LET a == sw.answer[1]
        IN  /\ (a.offline /\ a.okEarlier) =>
                  /\ a.response.source = "cache"
                  /\ a.response.status # 503
            /\ (~a.offline /\ a.response.source # "browser") =>
                  a.response.source = "network"

\* how many times onClose has been called for session id
TimesClosed(id) ==
    Cardinality({k \in 1 .. Len(sliders.closed) : sliders.closed[k] = id})

\* C28: onClose of a fullscreen session has not been called while the
\* session is the active one, and has been called exactly once as soon as it
\* is torn down, by the close button, a click on the background,
\* destroyFullscreenSlider or a later initFullscreenSlider; the cleanup slot
\* then no longer refers to the session.  Inline sessions have no onClose.
C28_OnCloseExactlyOnce ==
    /\ \A id \in 1 .. Len(sliders.closures) :
          LET s == sliders.closures[id]
              active == IdIn(Slot(s.region)) = id
          IN  /\ s.id = id
              /\ s.region = "inline" => TimesClosed(id) = 0
              /\ (s.region = "fullscreen" /\ active) => TimesClosed(id) = 0
              /\ (s.region = "fullscreen" /\ ~active) => TimesClosed(id) = 1
    /\ \A k \in 1 .. Len(sliders.closed) :
          /\ sliders.closed[k] \in 1 .. Len(sliders.closures)
          /\ IdIn(sliders.fullscreenSliderCleanup) # sliders.closed[k]
    /\ (sliders.last[2] = "fullscreen" /\ sliders.last[3] # 0) =>
          /\ TimesClosed(sliders.last[3]) = 1
          /\ sliders.closed[Len(sliders.closed)] = sliders.last[3]

C28_Witness ==
    /\ sliders.closed = <<1, 2, 3>>
    /\ sliders.last = <<"destroy", "fullscreen", 3>>
    /\ sliders.fullscreenSliderCleanup = <<>>

\* the surfaces on which session id is drawn
DrawnOn(id) == {sf \in Surfaces : SurfaceOf(sliders.closures[id]) = sf}

\* C29: after a session has been torn down none of its callbacks runs again:
\* every registered handler belongs to the session its region's cleanup slot
\* refers to, and every timer callback that runs (the label hide timer, the
\* matchSize delayed after orientationchange) belongs to a session that is
\* still the active one.
C29_NoCallbackAfterTeardown ==
    /\ \A l \in sliders.listeners : Active(l.session)
    /\ ~sliders.event.stale

\* C27: in the standalone document and on every inline and fullscreen
\* surface, whatever clicks, drags and key presses came before and wherever
\* the pointer was, the handle's left and the overlay's width are the same
\* percentage, between 0 and 100.
C27_HandleAndOverlayAgree ==
    /\ page.left = page.overlay
    /\ page.left # <<>> => page.left[1] \in 0 .. 100 * page.width
    /\ \A sf \in Surfaces :
          /\ sliders.handle[sf] = sliders.overlay[sf]
          /\ sliders.handle[sf] # <<>> =>
                sliders.handle[sf][1] \in 0 .. 100 * surfaceWidth

C27_Witness ==
    /\ sliders.handle[<<"inline", "c1">>] = <<0>>
    /\ sliders.overlay[<<"fullscreen", "c1">>] = <<100 * surfaceWidth>>
    /\ sliders.event.type = "move"
    /\ sliders.event.x = 0

\* the drag state of the in-app sliders across one step
DragStep ==
    LET ev == sliders'.event
        before == sliders.dragging
        after == sliders'.dragging
        moved(sf) == \/ sliders'.handle[sf] # sliders.handle[sf]
                     \/ sliders'.overlay[sf] # sliders.overlay[sf]
    IN  /\ after \ before # {} =>
              /\ ev.type = "press"
              /\ \A id \in after \ before :
                    Active(id) /\ ev.surface \in DrawnOn(id)
        /\ ev.type = "press" =>
              /\ \E id \in after : ev.surface \in DrawnOn(id)
              /\ \A sf \in Surfaces : ~moved(sf)
        /\ ev.type = "up" => after = {}
        /\ before \ after # {} => ev.type = "up" \/ sliders'.last # NoCall
        /\ ev.type = "move" =>
              /\ after = before
              /\ \A sf \in Surfaces :
                    moved(sf) => \E id \in before : sf \in DrawnOn(id)
              /\ \A id \in before : \A sf \in DrawnOn(id) :
                    sliders'.handle[sf] # <<>>

\* the drag state of the standalone document across one step
PageDragStep ==
    LET p == page
        q == page'
        still == /\ q.left = p.left
                 /\ q.overlay = p.overlay
                 /\ q.valuenow = p.valuenow
    IN  /\ (q.isDragging /\ ~p.isDragging) => q.last = "press"
        /\ q.last = "press" => q.isDragging /\ still
        /\ q.last = "release" => ~q.isDragging /\ still
        /\ (p.isDragging /\ ~q.isDragging) => q.last = "release"
        /\ q.last = "move" =>
              /\ q.isDragging = p.isDragging
              /\ ~p.isDragging => still
              /\ p.isDragging => q.left # <<>>
        /\ q.last = "click" =>
              /\ q.isDragging = p.isDragging
              /\ q.left # <<>>
              /\ q.left = q.overlay

\* a click of one of `types` on an in-app surface seeks to the pointer
ClickSeeks(types) ==
    LET ev == sliders'.event
    IN  ev.type \in types =>
          /\ sliders'.dragging = sliders.dragging
          /\ sliders'.handle[ev.surface] = <<ClampPct(ev.x, surfaceWidth)>>
          /\ sliders'.overlay[ev.surface] = <<ClampPct(ev.x, surfaceWidth)>>

\* C26 as worded: every slider is idle or dragging; it starts dragging only
\* on a mousedown / touchstart on its handle, is idle after every mouseup /
\* touchend, a mousemove / touchmove moves it only while it is dragging, and
\* every click on the surface, in either state, seeks to the pointer.
C26_DragMachineEveryClickSeeks ==
    [][DragStep /\ PageDragStep /\ ClickSeeks({"click", "clickHandle"})]_vars

\* C26: every slider is idle or dragging; it starts dragging only on a
\* mousedown / touchstart on its handle, is idle after every mouseup /
\* touchend, a mousemove / touchmove moves it only while it is dragging, and
\* a click on the surface, in either state, seeks to the pointer, except
\* that the fullscreen slider ignores a click whose target is inside its
\* handle.
C26_DragMachine ==
    [][DragStep /\ PageDragStep /\ ClickSeeks({"click"})]_vars

C26_Witness ==
    /\ sliders.event.type = "click"
    /\ sliders.event.surface = <<"fullscreen", "c1">>
    /\ sliders.event.x = 3
    /\ sliders.handle[<<"fullscreen", "c1">>] = <<100 * surfaceWidth>>
    /\ sliders.dragging # {}
====
